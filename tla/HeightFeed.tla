----------------------------- MODULE HeightFeed -----------------------------
(***************************************************************************)
(* What a subscriber may rely on, abstractly: a bounded channel on which   *)
(* the heights the monitor has observed arrive in the order in which they  *)
(* were observed, each at most once; any of them may be missing.           *)
(*                                                                         *)
(* HeightMonitor implements it for every subscriber (IsHeightFeed) and     *)
(* UpgradeSystem uses it in place of the monitor.                          *)
(***************************************************************************)
EXTENDS Naturals, Sequences

CONSTANTS Heights, BufferSize, MaxChanges

VARIABLES
  changes,   \* the heights observed so far
  channel,   \* the numbers of the changes that are buffered
  got        \* the number of the last change received, 0 before

feedVars == <<changes, channel, got>>

Observed == IF changes = <<>> THEN 0 ELSE changes[Len(changes)]
LastSent == IF channel = <<>> THEN got ELSE channel[Len(channel)]

FeedInit == changes = <<>> /\ channel = <<>> /\ got = 0

\* The node reports another height than before.
Observe(h) ==
  /\ h # Observed
  /\ Len(changes) < MaxChanges
  /\ changes' = Append(changes, h)
  /\ UNCHANGED <<channel, got>>

\* The newest change reaches the subscriber's channel, if there is room.
Publish ==
  /\ LastSent < Len(changes)
  /\ Len(channel) < BufferSize
  /\ channel' = Append(channel, Len(changes))
  /\ UNCHANGED <<changes, got>>

Receive ==
  /\ channel # <<>>
  /\ got' = Head(channel)
  /\ channel' = Tail(channel)
  /\ UNCHANGED changes

FeedNext == (\E h \in Heights : Observe(h)) \/ Publish \/ Receive

FeedSpec == FeedInit /\ [][FeedNext]_feedVars
=============================================================================
