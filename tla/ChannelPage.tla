---------------------------- MODULE ChannelPage ----------------------------
(***************************************************************************)
(* What a channel's page shows, as channel_page of web/routes_pages.py     *)
(* puts it together: the digest of the day, if there is one (Digest), and  *)
(* the statistics of the channel's posts (Statistics).  The page changes   *)
(* nothing; there is one only for a channel that is in the table.          *)
(***************************************************************************)
EXTENDS Digest, Statistics

HasPage == channel # None

(***************************************************************************)
(* detect_anomalies says of each post what a reader of the badge expects:  *)
(* fewer than half of the posts with views are anomalies; a spike has more *)
(* views, and a drop fewer, than all that are none; and an index is that   *)
(* of the post itself, whichever posts have no views yet.                  *)
(***************************************************************************)
AnomaliesSound == HasPage => Misjudged = {}

(***************************************************************************)
(* analytics.py:98-100: the AI layer flags "the same posts the dashboard   *)
(* badges do", up to its limit and except for posts without a text, in     *)
(* whichever order its query returns posts of one date, unless the window  *)
(* ends between posts of one date.  The days of the chart add up to the    *)
(* posts and views of the period, though the period begins at any time of  *)
(* its first day, but for posts of a day that has begun since; and the     *)
(* health never looks better for more failures or an older fetch.          *)
(***************************************************************************)
PageIsConsistent == HasPage => Inconsistent = {} /\ HealthOnlyWorsens
=============================================================================
