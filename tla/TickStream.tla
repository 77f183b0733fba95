------------------------------- MODULE TickStream -------------------------------
(***************************************************************************)
(* What the collector EA and TickScope promise together: the ticks of a      *)
(* broker reach the trackers one by one, in the order they were collected,   *)
(* none twice and none left out.  A restart of TickScope starts the stream   *)
(* again.  StopAndWait implements it over connections that come and go.      *)
(***************************************************************************)
EXTENDS Naturals, Sequences

VARIABLES
  collected,  (* ticks the EA has numbered                                *)
  delivered   (* numbers of the ticks the engine has processed, in order  *)

vars == <<collected, delivered>>

Init == collected = 0 /\ delivered = << >>

Collect ==
  /\ collected' \in Nat
  /\ collected' > collected
  /\ UNCHANGED delivered

Deliver ==
  /\ Len(delivered) < collected
  /\ delivered' = Append(delivered, Len(delivered))
  /\ UNCHANGED collected

Restart == collected' = 0 /\ delivered' = << >>

Next == Collect \/ Deliver \/ Restart

Spec == Init /\ [][Next]_vars
=============================================================================
