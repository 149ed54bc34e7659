---------------------------- MODULE OrderedDelivery ----------------------------
(***************************************************************************)
(* What a subscriber of an event stream may rely on: the events arrive in  *)
(* the order they were published in, each of them once, and every one of   *)
(* them arrives.  There is no network here.                                *)
(***************************************************************************)
EXTENDS Naturals, Sequences

CONSTANT MaxEvents           \* bound: how many events are published

VARIABLES published,         \* how many events have been published
          delivered          \* the numbers of the events that took effect

odVars == <<published, delivered>>

ODInit == published = 0 /\ delivered = <<>>

Announce == /\ published < MaxEvents
            /\ published' = published + 1
            /\ UNCHANGED delivered

TakeEffect == /\ Len(delivered) < published
              /\ delivered' = Append(delivered, Len(delivered) + 1)
              /\ UNCHANGED published

ODNext == Announce \/ TakeEffect

ODSpec == ODInit /\ [][ODNext]_odVars /\ WF_odVars(TakeEffect)
=============================================================================
