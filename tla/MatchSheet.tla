------------------------------ MODULE MatchSheet ------------------------------
(***************************************************************************)
(* The sheets of the matches of one event: what is recorded of each match, *)
(* its score, the automatic expulsions and its result                      *)
(* (controllers/lifecycle.py add_action, remove_action, sync_player_cards, *)
(* finish_match; lifecycle_support.py apply_score, active_match).          *)
(*                                                                         *)
(* Every request names its match and its launch by UUID and may be sent    *)
(* again, arrive late or find its match over: any request may arrive in    *)
(* any state, any number of times, and one that the handler refuses or     *)
(* answers without writing is a stuttering step.  Each handler holds the   *)
(* lock of the event's row: it is atomic.                                  *)
(*                                                                         *)
(* Who may be lined up and substituted, and the queue of teams, are module *)
(* EventLifecycle's; here a line-up is any one with people on both sides.  *)
(***************************************************************************)
EXTENDS Integers, FiniteSets

CONSTANTS
  Player,       \* profiles and guests of the event
  Launch,       \* UUIDs of launches (game_actions.id)
  MaxMatches    \* bound on the matches of the day

ASSUME PeopleAssumption == IsFiniteSet(Launch)
ASSUME MaxMatchesAssumption == MaxMatches \in Nat \ {0}

Match   == 1 .. MaxMatches
Side    == {"a", "b"}
NoSide  == "out"
Kind    == {"goal", "own_goal", "assist", "yellow_card", "red_card"}
Entry   == [match : Match, who : Player, side : Side, kind : Kind]
NoEntry == [match |-> 0]

Lineups == {l \in [Player -> Side \cup {NoSide}] : \A t \in Side : \E p \in Player : l[p] = t}

VARIABLES
  current,     \* sequence of the last match
  playing,     \* is it in progress?  (otherwise the event is over)
  side,        \* match_lineups.team_id of every match
  active,      \* match_lineups.is_active of the last match
  sheet,       \* game_actions with a launch's id
  autoRed,     \* game_actions noted automatic:second_yellow
  goals,       \* match_teams.goals
  result       \* match_teams.result

vars == <<current, playing, side, active, sheet, autoRed, goals, result>>

Other(t) == IF t = "a" THEN "b" ELSE "a"

-----------------------------------------------------------------------------
(* What the sheet s says.                                                  *)

Entries(s, m) == {id \in Launch : s[id] # NoEntry /\ s[id].match = m}

Cards(s, m, p, k) == {id \in Entries(s, m) : s[id].who = p /\ s[id].kind = k}

(* The side whose score an entry moves, if it does.                        *)
ScoresFor(e) == IF e.kind = "goal" THEN e.side
                ELSE IF e.kind = "own_goal" THEN Other(e.side) ELSE NoSide

(* card_error: nobody gets a card after a red one or a second yellow.      *)
Expelled(m, p) ==
  \/ <<m, p>> \in autoRed
  \/ Cards(sheet, m, p, "red_card") # {}
  \/ Cardinality(Cards(sheet, m, p, "yellow_card")) >= 2

(* apply_score: refuses to go below zero.                                  *)
ApplyScore(e, delta) ==
  IF ScoresFor(e) = NoSide THEN goals' = goals
  ELSE /\ goals[e.match][ScoresFor(e)] + delta >= 0
       /\ goals' = [goals EXCEPT ![e.match][ScoresFor(e)] = @ + delta]

(* sync_player_cards, on the rows that were just written.                  *)
SyncPlayerCards(m, p) ==
  autoRed' =
    IF Cardinality(Cards(sheet', m, p, "yellow_card")) < 2 \/ Cards(sheet', m, p, "red_card") # {}
    THEN autoRed \ {<<m, p>>}
    ELSE autoRed \cup {<<m, p>>}

-----------------------------------------------------------------------------
(* add_action with a new id; the player is active on that side.            *)
Record(id, e) ==
  /\ playing /\ e.match = current
  /\ e.kind \in {"yellow_card", "red_card"} => ~Expelled(e.match, e.who)
  /\ sheet' = [sheet EXCEPT ![id] = e]
  /\ ApplyScore(e, 1)
  /\ SyncPlayerCards(e.match, e.who)
  /\ UNCHANGED <<current, playing, side, active, result>>

LinedUp(e) == side[current][e.who] = e.side /\ e.who \in active

AddTwice(id, e) == LinedUp(e) /\ Record(id, e)                 \* mutant: a repeated id
AddAction(id, e) == LinedUp(e) /\ sheet[id] = NoEntry /\ Record(id, e)

(* remove_action of an entry of the match in progress.  The automatic red  *)
(* card has an id of its own, which no launch uses, and is refused.        *)
RemoveUnsynced(id) ==                                 \* mutant: cards not brought in line
  /\ playing /\ sheet[id] # NoEntry /\ sheet[id].match = current
  /\ ApplyScore(sheet[id], -1)
  /\ sheet' = [sheet EXCEPT ![id] = NoEntry]
  /\ UNCHANGED <<current, playing, side, active, autoRed, result>>

RemoveAction(id) ==
  /\ playing /\ sheet[id] # NoEntry /\ sheet[id].match = current
  /\ ApplyScore(sheet[id], -1)
  /\ sheet' = [sheet EXCEPT ![id] = NoEntry]
  /\ SyncPlayerCards(current, sheet[id].who)
  /\ UNCHANGED <<current, playing, side, active, result>>

(* add_temporary_player, as far as it decides who may be recorded.         *)
Substitute(in, out) ==
  /\ playing
  /\ side[current][in] = NoSide
  /\ out \in active
  /\ side' = [side EXCEPT ![current][in] = side[current][out]]
  /\ active' = (active \ {out}) \cup {in}
  /\ UNCHANGED <<current, playing, sheet, autoRed, goals, result>>

(* finish_match: the winner has the better score, or is chosen in a tie.   *)
OutcomeNoDraw(w) == [t \in Side |-> IF t = w THEN "win" ELSE "loss"]   \* mutant: ties won

Outcome(w) ==
  IF goals[current]["a"] = goals[current]["b"] THEN [t \in Side |-> "draw"]
  ELSE [t \in Side |-> IF t = w THEN "win" ELSE "loss"]

FinishMatch(w) ==
  /\ playing
  /\ goals[current][w] >= goals[current][Other(w)]
  /\ result' = [result EXCEPT ![current] = Outcome(w)]

LineUp(l) ==
  /\ side' = [side EXCEPT ![current'] = l]
  /\ active' = {p \in Player : l[p] \in Side}

FinishAndContinue(w, l) ==
  /\ FinishMatch(w)
  /\ current < MaxMatches
  /\ current' = current + 1
  /\ LineUp(l)
  /\ UNCHANGED <<playing, sheet, autoRed, goals>>

FinishAndClose(w) ==
  /\ FinishMatch(w)
  /\ playing' = FALSE
  /\ UNCHANGED <<current, side, active, sheet, autoRed, goals>>

-----------------------------------------------------------------------------
(* The first match has just been created, with an empty sheet.             *)
Init ==
  /\ current = 1
  /\ playing = TRUE
  /\ \E l \in Lineups :
       /\ side = [m \in Match |-> IF m = 1 THEN l ELSE [p \in Player |-> NoSide]]
       /\ active = {p \in Player : l[p] \in Side}
  /\ sheet = [id \in Launch |-> NoEntry]
  /\ autoRed = {}
  /\ goals = [m \in Match |-> [t \in Side |-> 0]]
  /\ result = [m \in Match |-> [t \in Side |-> "none"]]

Next ==
  \/ \E id \in Launch, e \in Entry : AddAction(id, e)
  \/ \E id \in Launch : RemoveAction(id)
  \/ \E in, out \in Player : Substitute(in, out)
  \/ \E w \in Side, l \in Lineups : FinishAndContinue(w, l)
  \/ \E w \in Side : FinishAndClose(w)

Spec == Init /\ [][Next]_vars

-----------------------------------------------------------------------------
TypeOK ==
  /\ current \in Match
  /\ playing \in BOOLEAN
  /\ side \in [Match -> [Player -> Side \cup {NoSide}]]
  /\ active \in SUBSET Player
  /\ sheet \in [Launch -> Entry \cup {NoEntry}]
  /\ autoRed \in SUBSET (Match \X Player)
  /\ goals \in [Match -> [Side -> Nat]]
  /\ result \in [Match -> [Side -> {"none", "win", "loss", "draw"}]]

(***************************************************************************)
(* The score, which every launch and every correction moves by one, is the *)
(* number of goals on the sheet: goals of a side and own goals of the      *)
(* other, whatever was added twice, removed or sent late.                  *)
(***************************************************************************)
GoalsFor(m, t) == {id \in Entries(sheet, m) : ScoresFor(sheet[id]) = t}

ScoreMatchesSheet ==
  \A m \in Match, t \in Side : goals[m][t] = Cardinality(GoalsFor(m, t))

(***************************************************************************)
(* "dois amarelos do mesmo jogador na mesma partida geram exatamente um    *)
(* vermelho automático" (Feedback.md, 12): the automatic red card is there *)
(* exactly when two yellow ones are, and nobody collects more than that or *)
(* two red cards, whatever is added and removed in between.                *)
(***************************************************************************)
ExpulsionsAreExact ==
  \A m \in Match, p \in Player :
    LET yellows == Cardinality(Cards(sheet, m, p, "yellow_card"))
        direct  == Cardinality(Cards(sheet, m, p, "red_card"))
    IN /\ <<m, p>> \in autoRed <=> yellows = 2
       /\ yellows <= 2
       /\ direct <= 1
       /\ ~(<<m, p>> \in autoRed /\ direct = 1)

(***************************************************************************)
(* The result of a finished match is the one its sheet gives, and a match  *)
(* that is not finished has none: no launch reaches a match after its end. *)
(***************************************************************************)
ResultsMatchSheets ==
  \A m \in Match, t \in Side :
    LET mine   == Cardinality(GoalsFor(m, t))
        theirs == Cardinality(GoalsFor(m, Other(t)))
    IN result[m][t] =
         IF m > current \/ (m = current /\ playing) THEN "none"
         ELSE IF mine > theirs THEN "win"
         ELSE IF mine < theirs THEN "loss" ELSE "draw"

(* Whoever is on a sheet played that match, on that side.                  *)
OnlyThoseWhoPlayed ==
  \A id \in Launch : sheet[id] # NoEntry =>
    side[sheet[id].match][sheet[id].who] = sheet[id].side

(***************************************************************************)
(* A match that is over is for reading only, although its launches' ids    *)
(* and its people live on in the matches that follow.                      *)
(***************************************************************************)
FinishedSheetsAreFrozen ==
  [][ \A m \in Match : result[m]["a"] # "none" =>
        /\ Entries(sheet', m) = Entries(sheet, m)
        /\ \A id \in Entries(sheet, m) : sheet'[id] = sheet[id]
        /\ \A p \in Player : <<m, p>> \in autoRed' <=> <<m, p>> \in autoRed
        /\ goals'[m] = goals[m] /\ result'[m] = result[m] ]_vars
=============================================================================
