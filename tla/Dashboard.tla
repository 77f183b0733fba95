------------------------------ MODULE Dashboard ------------------------------
(***************************************************************************)
(* The part of the dashboard's state that outlives a run: the compared     *)
(* pair, the hidden brokers, their order and the terminals to manage       *)
(* (ui/dashboard/mod.rs), saved to ui_state.json, loaded, sanitized and    *)
(* reconciled with the configured brokers at the next start                *)
(* (ui/settings.rs, main.rs).  All the settings a frame only compares with *)
(* their value before it are the one field `setting'.                      *)
(***************************************************************************)
EXTENDS Integers, FiniteSets, SequencesExt, Aggregates

CONSTANTS
  KnownBrokers,   \* every broker id some configuration lists
  DefaultPair,    \* default_active_pair of settings.rs
  ConfigPair,     \* active_pair of the configuration
  MaxEdits,       \* bound on what the user changes
  MaxStarts       \* bound on the starts of the program

VARIABLES
  brokers,      \* the brokers of the running configuration
  up,           \* the program runs
  app,          \* the persisted fields of DashboardApp but the next one
  chart_timezone, \* the clock's time zone, persisted too and changed in two places
  clock_clicked, \* ghost: a click on the clock since the state was saved or loaded
  state_dirty,  \* DashboardApp.state_dirty
  frame_drawn,  \* the frame has handled its input and not yet saved
  file,         \* ui_state.json: missing, broken (it does not parse) or saved
  engine_pair,  \* the pair the tick engine analyses
  edits, starts \* bounds

dashboardVars ==
  <<brokers, up, app, chart_timezone, clock_clicked, state_dirty, frame_drawn, file,
    engine_pair, edits, starts>>

\* The configurations list their brokers in ascending order.
InConfigOrder(set) == KeysByValue([x \in set |-> x])

Defaults == [pair |-> DefaultPair, hidden |-> {}, order |-> <<>>, targets |-> {},
             setting |-> FALSE]

Zones == {"jst", "server"}

Saved(state, zone) == [is |-> "saved", state |-> state, zone |-> zone]
Unreadable(why) == [is |-> why, state |-> Defaults, zone |-> "jst"]

-----------------------------------------------------------------------------
\* reconcile_with_brokers_and_config, after sanitize.
VisibleOf(s, bs) == bs \ s.hidden

Unhidden(s, bs) ==
  [s EXCEPT !.hidden = IF Cardinality(bs \ @) < 2 /\ Cardinality(bs) >= 2 THEN {} ELSE @ \cap bs]

PairFits(s, bs) == s.pair[1] # s.pair[2] /\ {s.pair[1], s.pair[2]} \subseteq VisibleOf(s, bs)

WithPair(s, bs) ==
  LET visible == InConfigOrder(VisibleOf(s, bs)) IN
  IF PairFits(s, bs) THEN s
  ELSE IF Len(visible) >= 2 THEN [s EXCEPT !.pair = <<visible[1], visible[2]>>]
  ELSE [s EXCEPT !.pair = ConfigPair, !.hidden = @ \ {ConfigPair[1], ConfigPair[2]}]

WithTargets(s, bs) ==
  [s EXCEPT !.targets = IF @ = {} THEN bs ELSE @ \cap bs]

Reconciled(s, bs) == WithTargets(WithPair(Unhidden(s, bs), bs), bs)

\* load_ui_state, or the defaults.
Loaded(f, bs) == Reconciled(IF f.is = "saved" THEN f.state ELSE Defaults, bs)

-----------------------------------------------------------------------------
Configurations == {bs \in SUBSET KnownBrokers :
                     Cardinality(bs) >= 2 /\ {ConfigPair[1], ConfigPair[2]} \subseteq bs}

DashboardInit ==
  /\ brokers \in Configurations
  /\ file \in {Unreadable("missing"), Unreadable("broken")}
  /\ up = TRUE
  /\ app = Loaded(file, brokers)
  /\ chart_timezone = file.zone /\ clock_clicked = FALSE
  /\ state_dirty = FALSE
  /\ frame_drawn = FALSE
  /\ engine_pair = app.pair
  /\ edits = 0 /\ starts = 1

\* One input of a frame: render_ui, the panels and handle_hotkeys.  Every frame
\* draws the brokers in order and appends the ones it does not know yet.
InOrder(order) == order \o InConfigOrder(brokers \ ToSet(order))

\* render_ui compares its settings with those before the frame, the setters and the
\* order mark what they change; a choice of the quick settings is marked in any case.
\* Mutant: the new brokers are appended without remembering to save.
DirtyIfEdited(new) == new.pair # app.pair \/ new.hidden # app.hidden
DirtyIfChanged(new) == new # app

Frame(changed, marked) ==
  LET new == [changed EXCEPT !.order = InOrder(@)] IN
  /\ up /\ ~frame_drawn
  /\ app' = new
  /\ state_dirty' = (state_dirty \/ marked \/ DirtyIfChanged(new))
  /\ engine_pair' = new.pair       \* pair_selection_handler, set_active_pair
  /\ frame_drawn' = TRUE
  /\ UNCHANGED <<brokers, up, file, starts>>

Edit(changed) ==
  /\ edits < MaxEdits /\ edits' = edits + 1
  /\ Frame(changed, FALSE) /\ UNCHANGED <<chart_timezone, clock_clicked>>

IdleFrame == Frame(app, FALSE) /\ UNCHANGED <<edits, chart_timezone, clock_clicked>>

\* The time zone of a replay, in the quick settings and by a click on the clock: the
\* click marks nothing, and render_ui does not compare the time zone.
ChooseTimezone ==
  /\ edits < MaxEdits /\ edits' = edits + 1
  /\ chart_timezone' \in Zones
  /\ Frame(app, TRUE) /\ UNCHANGED clock_clicked

ClickClock ==
  /\ edits < MaxEdits /\ edits' = edits + 1
  /\ chart_timezone' \in Zones \ {chart_timezone} /\ clock_clicked' = TRUE
  /\ Frame(app, FALSE)

\* set_selected_pair through set_broker_a and set_broker_b: choosing the other
\* one's broker exchanges the two.
WithA(s, id) == [s EXCEPT !.pair = IF id = @[2] THEN <<@[2], @[1]>> ELSE <<id, @[2]>>]
WithB(s, id) == [s EXCEPT !.pair = IF id = @[1] THEN <<@[2], @[1]>> ELSE <<@[1], id>>]

SelectBroker == \E id \in brokers : Edit(WithA(app, id)) \/ Edit(WithB(app, id))

\* cycle_pair over the ordered pairs of the n visible brokers: the places of the k-th.
FirstPlace(n, k) == (k \div (n - 1)) + 1
SecondPlace(n, k) ==
  LET j == k % (n - 1) IN IF j < k \div (n - 1) THEN j + 1 ELSE j + 2

PlacesShown ==
  LET shown == InOrder(app.order)
  IN [id \in VisibleOf(app, brokers) |-> CHOOSE i \in DOMAIN shown : shown[i] = id]

PairAt(k) ==
  LET ids == KeysByValue(PlacesShown) n == Cardinality(VisibleOf(app, brokers))
  IN <<ids[FirstPlace(n, k)], ids[SecondPlace(n, k)]>>

CyclePair ==
  LET n == Cardinality(VisibleOf(app, brokers))
      pairs == n * (n - 1)
      current == {k \in 0..(pairs - 1) : PairAt(k) = app.pair}
      k0 == IF current = {} THEN 0 ELSE CHOOSE k \in current : TRUE
  IN /\ n >= 2
     /\ \E step \in {1, pairs - 1} : Edit([app EXCEPT !.pair = PairAt((k0 + step) % pairs)])

\* set_broker_visible: two brokers stay visible, and a hidden broker leaves the
\* pair to the first visible one that is not the other.
HideBroker ==
  \E id \in brokers \ app.hidden :
    LET left == VisibleOf(app, brokers) \ {id}
        hid == [app EXCEPT !.hidden = @ \cup {id}]
        Other(b) == InConfigOrder(left \ {b})[1]
    IN /\ Cardinality(left) >= 2
       /\ Edit(IF id = app.pair[1] THEN WithA(hid, Other(app.pair[2]))
               ELSE IF id = app.pair[2] THEN WithB(hid, Other(app.pair[1]))
               ELSE hid)

ShowBroker ==
  \/ \E id \in app.hidden : Edit([app EXCEPT !.hidden = @ \ {id}])
  \/ app.hidden # {} /\ Edit([app EXCEPT !.hidden = {}])

\* move_broker_order: taken out of its place, put before or after the target.
MoveBrokerOrder ==
  \E id, target \in brokers, after \in {0, 1} :
    /\ id # target /\ {id, target} \subseteq ToSet(app.order)
    /\ LET rest == RemoveAt(app.order, CHOOSE i \in DOMAIN app.order : app.order[i] = id)
           place == CHOOSE i \in DOMAIN rest : rest[i] = target
       IN Edit([app EXCEPT !.order = InsertAt(rest, place + after, id)])

ResetBrokerOrder == Edit([app EXCEPT !.order = InConfigOrder(brokers)])

\* set_mt5_target, select_all_mt5_targets and the menu entry that clears them.
ChooseTargets ==
  \/ \E id \in brokers : Edit([app EXCEPT !.targets = (@ \cup {id}) \ (@ \cap {id})])
  \/ Edit([app EXCEPT !.targets = brokers])
  \/ Edit([app EXCEPT !.targets = {}])

ChangeSetting == Edit([app EXCEPT !.setting = ~@])

\* track_window_geometry at the end of a frame: save_state when dirty, which
\* writes a temporary file and renames it, or fails and stays dirty.
EndFrame ==
  /\ up /\ frame_drawn
  /\ \/ UNCHANGED <<file, state_dirty, clock_clicked>>
     \/ /\ state_dirty /\ state_dirty' = FALSE
        /\ file' = Saved(app, chart_timezone) /\ clock_clicked' = FALSE
  /\ frame_drawn' = FALSE
  /\ UNCHANGED <<brokers, up, app, chart_timezone, engine_pair, edits, starts>>

\* The window is closed (Drop saves once more), the process dies between two
\* steps, or it dies while the fallback of save_ui_state overwrites the file.
Leave ==
  /\ up /\ up' = FALSE
  /\ \/ ~frame_drawn /\ file' = Saved(app, chart_timezone)
     \/ UNCHANGED file
     \/ frame_drawn /\ state_dirty /\ file' = Unreadable("broken")
  /\ frame_drawn' = FALSE
  /\ UNCHANGED <<brokers, app, chart_timezone, clock_clicked, state_dirty, engine_pair, edits,
                 starts>>

\* main: the state is loaded and reconciled, and the engine starts with its pair.
StartAgain ==
  /\ ~up /\ starts < MaxStarts
  /\ \E bs \in Configurations :
       /\ brokers' = bs
       /\ app' = Loaded(file, bs)
       /\ engine_pair' = app'.pair
  /\ chart_timezone' = file.zone /\ clock_clicked' = FALSE
  /\ up' = TRUE /\ state_dirty' = FALSE
  /\ starts' = starts + 1
  /\ UNCHANGED <<frame_drawn, file, edits>>

DashboardNext ==
  \/ IdleFrame \/ SelectBroker \/ CyclePair \/ HideBroker \/ ShowBroker
  \/ MoveBrokerOrder \/ ResetBrokerOrder \/ ChooseTargets \/ ChangeSetting
  \/ ChooseTimezone \/ ClickClock
  \/ EndFrame \/ Leave \/ StartAgain

DashboardSpec == DashboardInit /\ [][DashboardNext]_dashboardVars

DashboardLimits ==
  /\ KnownBrokers \subseteq Int /\ IsFiniteSet(KnownBrokers)
  /\ DefaultPair \in Int \X Int /\ ConfigPair \in Int \X Int

-----------------------------------------------------------------------------
\* The persisted fields refer to brokers some configuration lists.
DashboardTypeOK ==
  /\ app.hidden \subseteq KnownBrokers /\ app.targets \subseteq KnownBrokers
  /\ ToSet(app.order) \subseteq KnownBrokers /\ Cardinality(ToSet(app.order)) = Len(app.order)
  /\ frame_drawn => up

\* Whatever was hidden, moved or removed from the configuration since, two brokers
\* stay visible, the compared pair is two different configured brokers, and the
\* engine analyses the pair the dashboard shows (set_broker_visible, cycle_pair,
\* reconcile_with_brokers_and_config, pair_selection_handler).
PairIsUsable ==
  up => /\ Cardinality(VisibleOf(app, brokers)) >= 2
        /\ app.pair[1] # app.pair[2] /\ {app.pair[1], app.pair[2]} \subseteq brokers
        /\ engine_pair = app.pair

\* With nothing left to save, the next start with the same brokers shows what this
\* one shows, up to what reconciliation alone would change: no choice of the user
\* is lost by a frame that forgot to mark it (state_dirty of every setter).
SavedIsShown ==
  up /\ ~state_dirty =>
    LET AtRest(s) == [Reconciled(s, brokers) EXCEPT !.order = InOrder(@)]
    IN AtRest(Loaded(file, brokers)) = AtRest(app)

\* With nothing left to save, the file holds the time zone too, unless the clock was
\* clicked since the last save: of all choices that one alone is not marked
\* (draw_chart_clock_badge of ui/chart/common.rs), and a process that dies loses it.
TimezoneIsSaved == up /\ ~state_dirty /\ ~clock_clicked => file.zone = chart_timezone

\* The user's choices are usable and outlive the run (dashboard/mod.rs, settings.rs).
DashboardCorrect == DashboardTypeOK /\ PairIsUsable /\ SavedIsShown /\ TimezoneIsSaved
=============================================================================
