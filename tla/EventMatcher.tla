------------------------------ MODULE EventMatcher ------------------------------
(***************************************************************************)
(* Lead and lag of a pair of brokers: the move detector of each broker       *)
(* (src/src/metrics/lead_lag.rs) and the matcher that pairs the move events of*)
(* the active pair one to one (src/src/tick/matcher.rs).  The quotes of one  *)
(* broker arrive in the order of their receive times; those of different     *)
(* brokers arrive in any order.  Prices are whole points.                    *)
(***************************************************************************)
EXTENDS Integers, SequencesExt, FiniteSetsExt

CONSTANTS
  Mids,             (* mid prices                                           *)
  LastReceive,      (* bound: receive times                                 *)
  MaxQuotes,        (* bound: quotes                                        *)
  Trigger,          (* trigger_move_points                                  *)
  Cooldown,         (* event_cooldown_ms                                    *)
  MatchingWindow,   (* matching_window_ms                                   *)
  PendingCapacity   (* pending_event_capacity                               *)

MatchedBrokers == {1, 2}
NoQuote == 0        \* no price is zero

VARIABLES
  anchor,         (* anchor_quote of each detector: its mid                 *)
  cooldown_until, (* of each detector                                       *)
  active_pair,    (* the engine's                                           *)
  pending_events, (* pending_a, pending_b                                   *)
  matches,        (* the matches of this matcher, in order                  *)
  quotes_received, (* receive time of each broker's last quote, and count    *)
  fired           (* history: the last two events of each broker            *)

matcherVars == <<anchor, cooldown_until, active_pair, pending_events, matches,
                 quotes_received, fired>>

MatcherInit ==
  /\ anchor = [b \in MatchedBrokers |-> NoQuote]
  /\ cooldown_until = [b \in MatchedBrokers |-> 0]
  /\ active_pair = <<1, 2>>
  /\ pending_events = [b \in MatchedBrokers |-> << >>]
  /\ matches = << >>
  /\ quotes_received = [last |-> [b \in MatchedBrokers |-> 0], count |-> 0]
  /\ fired = [b \in MatchedBrokers |-> << >>]

Apart(t, u) == IF t < u THEN u - t ELSE t - u

Eligible(e, f) ==
  e.direction = f.direction /\ e.at # f.at /\ Apart(e.at, f.at) <= MatchingWindow

\* find_best_match: the closest candidate, the earlier one of two as close.
BestMatch(e, queue) ==
  LET candidates == {i \in DOMAIN queue : Eligible(e, queue[i])}
  IN CHOOSE i \in candidates : \A j \in candidates :
       \/ Apart(e.at, queue[i].at) < Apart(e.at, queue[j].at)
       \/ /\ Apart(e.at, queue[i].at) = Apart(e.at, queue[j].at)
          /\ queue[i].seq <= queue[j].seq

\* Mutant: the candidate stays in its queue.
Without(queue, i) == queue
WithoutMatched(queue, i) == RemoveAt(queue, i)

Match(e, f) == IF e.at < f.at THEN [leader |-> e, follower |-> f]
                              ELSE [leader |-> f, follower |-> e]

Queued(queue, e) ==
  Append(IF Len(queue) >= PendingCapacity THEN Tail(queue) ELSE queue, e)

\* OneToOneEventMatcher.on_event
OnEvent(e) ==
  LET other == 3 - e.broker
  IN IF \E i \in DOMAIN pending_events[other] : Eligible(e, pending_events[other][i])
     THEN LET i == BestMatch(e, pending_events[other])
          IN /\ pending_events' = [pending_events EXCEPT ![other] = WithoutMatched(@, i)]
             /\ matches' = Append(matches, Match(e, pending_events[other][i]))
     ELSE /\ pending_events' = [pending_events EXCEPT ![e.broker] = Queued(@, e)]
          /\ UNCHANGED matches

MayFire(b, t) == t >= cooldown_until[b]

\* SignificantMidMoveDetector.on_quote with a valid live quote, and the matcher fed
\* with what it returns (process_frame).
OnQuote(b, t, mid) ==
  /\ quotes_received.count < MaxQuotes /\ t >= quotes_received.last[b]
  /\ quotes_received' = [last |-> [quotes_received.last EXCEPT ![b] = t],
                         count |-> quotes_received.count + 1]
  /\ UNCHANGED active_pair
  /\ IF anchor[b] # NoQuote /\ MayFire(b, t) /\ Apart(mid, anchor[b]) >= Trigger
     THEN LET e == [broker |-> b, at |-> t, seq |-> quotes_received.count, from |-> anchor[b],
                    to |-> mid, direction |-> IF mid > anchor[b] THEN "Up" ELSE "Down"]
          IN /\ anchor' = [anchor EXCEPT ![b] = mid]
             /\ cooldown_until' = [cooldown_until EXCEPT ![b] = t + Cooldown]
             /\ fired' = [fired EXCEPT ![b] = Append(IF Len(@) = 2 THEN Tail(@) ELSE @, e)]
             /\ OnEvent(e)
     ELSE /\ anchor' = IF anchor[b] = NoQuote THEN [anchor EXCEPT ![b] = mid] ELSE anchor
          /\ UNCHANGED <<cooldown_until, fired, pending_events, matches>>

\* set_active_pair: the pair turned round gets a new matcher; the detectors stay.
SetActivePair ==
  /\ active_pair' = <<active_pair[2], active_pair[1]>>
  /\ pending_events' = [b \in MatchedBrokers |-> << >>] /\ matches' = << >>
  /\ UNCHANGED <<anchor, cooldown_until, quotes_received, fired>>

MatcherNext ==
  \/ \E b \in MatchedBrokers, t \in 0..LastReceive, mid \in Mids : OnQuote(b, t, mid)
  \/ SetActivePair

MatcherSpec == MatcherInit /\ [][MatcherNext]_matcherVars
-----------------------------------------------------------------------------

\* validate of config/schema.rs asks for the capacity; no price is zero.
MatcherLimits ==
  /\ Mids \subseteq Nat \ {NoQuote} /\ LastReceive \in Nat /\ MaxQuotes \in Nat
  /\ Trigger \in Nat /\ Cooldown \in Nat /\ MatchingWindow \in Nat
  /\ PendingCapacity \in Nat \ {0}

MatcherTypeOK ==
  /\ anchor \in [MatchedBrokers -> Mids \cup {NoQuote}]
  /\ \A b \in MatchedBrokers : /\ cooldown_until[b] \in 0..(LastReceive + Cooldown)
                               /\ Len(pending_events[b]) <= PendingCapacity

\* No two events that could be paired are both left waiting, whatever order the
\* brokers' quotes are processed in (find_best_match looks at the whole other queue).
NoPairLeftWaiting ==
  \A i \in DOMAIN pending_events[1], j \in DOMAIN pending_events[2] :
    ~Eligible(pending_events[1][i], pending_events[2][j])

\* Pairing is one to one: an event is in at most one match and, once matched, no
\* longer waits for another partner (on_event takes the candidate out of its queue).
MatchedOnce ==
  LET events(m) == {m.leader, m.follower}
  IN /\ \A i, j \in DOMAIN matches : i # j => events(matches[i]) \cap events(matches[j]) = {}
     /\ \A i \in DOMAIN matches, b \in MatchedBrokers :
          events(matches[i]) \cap ToSet(pending_events[b]) = {}

\* The leader of every match moved strictly before its follower, in the same
\* direction and within the window, although the matcher may have seen it second.
LeaderMovedFirst ==
  \A i \in DOMAIN matches :
    LET m == matches[i]
    IN /\ m.leader.at < m.follower.at /\ m.follower.at - m.leader.at <= MatchingWindow
       /\ m.leader.direction = m.follower.direction /\ m.leader.broker # m.follower.broker

\* Invariant I13 of the detector: a cooldown lies between two events of a broker, and
\* the second starts from the price at which the first one ended - what the price
\* did in between does not move the anchor.
EventsAreSpaced ==
  \A b \in MatchedBrokers : Len(fired[b]) = 2 =>
    /\ fired[b][2].at >= fired[b][1].at + Cooldown
    /\ fired[b][2].from = fired[b][1].to
    /\ Apart(fired[b][2].to, fired[b][1].to) >= Trigger

\* The compared pair.  Events are matched one to one, the earlier one leads, none
\* that can still be matched is left waiting and a broker's events keep their
\* cooldown (OneToOneEventMatcher, MoveDetector).
MatcherCorrect ==
  /\ MatcherTypeOK
  /\ NoPairLeftWaiting
  /\ MatchedOnce
  /\ LeaderMovedFirst
  /\ EventsAreSpaced
=============================================================================
