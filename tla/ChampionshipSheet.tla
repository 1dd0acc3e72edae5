-------------------------- MODULE ChampionshipSheet --------------------------
(***************************************************************************)
(* The sheets of the matches between two clubs of an edition, up to the    *)
(* awards: launches, automatic expulsions, goalkeepers and who of them     *)
(* conceded which goal, results, statistics (controllers/championships.py, *)
(* helpers/cards.py, championship_goalkeepers.py, championship_trophies.py).*)
(*                                                                         *)
(* All requests lock the edition first, so each is one step.  A launch has *)
(* an id of the client's choice: one that comes again changes nothing, and *)
(* one that comes late finds the match decided.                            *)
(***************************************************************************)
EXTENDS Integers, Sequences, FiniteSetsExt

CONSTANTS
  Match,
  Side,          \* the two clubs
  Squad,         \* their registered players, numbers in the order of their UUIDs
  Nobody,
  Id,            \* ids of launches
  MaxGoals,      \* bound: goals in a result without launches
  MaxStints      \* bound: changes of a club's goalkeeper

Person == UNION {Squad[s] : s \in Side}

ASSUME MatchAssumption == IsFiniteSet(Match)
ASSUME SideAssumption == IsFiniteSet(Side) /\ Cardinality(Side) = 2 /\ "none" \notin Side
ASSUME SquadAssumption ==
  /\ \A s \in Side : IsFiniteSet(Squad[s]) /\ Squad[s] \subseteq Nat
  /\ \A s, t \in Side : s # t => Squad[s] \cap Squad[t] = {}
  /\ Nobody \notin Person
ASSUME IdAssumption == Id \cap Person = {}
ASSUME BoundAssumption == MaxGoals \in Nat /\ MaxStints \in Nat \ {0}

VARIABLES
  sheet,      \* championship_matches.actions
  keeper,     \* home_goalkeeper_id and away_goalkeeper_id
  history,    \* goalkeeper_history of each club, <<>> before the match begins
  started,    \* started_at
  score,      \* the goals of each club, or Undecided
  walkover,
  complete,   \* statistics_complete
  stats,      \* championship_statistics
  banned,     \* clubs disqualified
  champion,   \* championships.champion_id, when the edition is finished
  awards      \* championship_trophies

matchVars   == <<sheet, keeper, history, started>>
resultVars  == <<score, walkover, complete, stats>>
editionVars == <<banned, champion, awards>>
vars == <<sheet, keeper, history, started, score, walkover, complete, stats, banned, champion, awards>>

Kind   == {"goal", "assist", "own_goal", "yellow_card", "red_card"}
Keeper == Person \cup {Nobody}
NoClub == "none"

(* An automatic red card has an id made of the player's.                   *)
Launch == [id : Id \cup Person, kind : Kind, person : Person, auto : BOOLEAN, keeper : Keeper]

Tally     == [goals : Nat, assists : Nat, own_goals : Nat]
NoTally   == [goals |-> 0, assists |-> 0, own_goals |-> 0]
Undecided == [s \in Side |-> -1]

Category  == {"champion", "runner_up", "goals", "assists", "goals_conceded"}

SideOf(p) == CHOOSE s \in Side : p \in Squad[s]
Other(s)  == CHOOSE t \in Side : t # s

Open(m) == score[m] = Undecided
Editable(m) == champion = NoClub /\ Open(m)

-----------------------------------------------------------------------------
(* Cards *)

Of(p, some)        == {a \in some : a.person = p}
Kinds(p, k, some)  == {a \in Of(p, some) : a.kind = k}

Expelled(p, some) ==
  Kinds(p, "red_card", some) # {} \/ Cardinality(Kinds(p, "yellow_card", some)) >= 2

SyncedOnce(some) ==                          \* mutant: the red card stays
  some \cup {[id |-> p, kind |-> "red_card", person |-> p, auto |-> TRUE, keeper |-> Nobody] :
    p \in {q \in Person : Cardinality(Kinds(q, "yellow_card", some)) >= 2 /\ Kinds(q, "red_card", some) = {}}}

(* sync_championship_cards *)
Synced(some) ==
  LET own == {a \in some : ~a.auto}
  IN own \cup {[id |-> p, kind |-> "red_card", person |-> p, auto |-> TRUE, keeper |-> Nobody] :
       p \in {q \in Person : Cardinality(Kinds(q, "yellow_card", own)) >= 2 /\ Kinds(q, "red_card", own) = {}}}

-----------------------------------------------------------------------------
(* Goalkeepers *)

(* begin_goalkeeping *)
Begun(m) ==
  IF \A s \in Side : history[m][s] = <<>> THEN [s \in Side |-> <<keeper[m][s]>>] ELSE history[m]

(* goal_recipient: the club that a launch goes against.                    *)
Against(a, s) ==
  \/ a.kind = "goal" /\ SideOf(a.person) # s
  \/ a.kind = "own_goal" /\ SideOf(a.person) = s

Recorded(m, s) == {a \in sheet[m] : Against(a, s)}

Stints(m, s) == {history[m][s][i] : i \in DOMAIN history[m][s]} \ {Nobody}

(* goalkeeper_totals: who has kept the goal, and what each conceded.  A    *)
(* result without launches goes to the only keeper, if there is one.       *)
Participants(m, s) ==
  IF history[m][s] # <<>> THEN Stints(m, s) ELSE {keeper[m][s]} \ {Nobody}

ConcededBy(m, s, p) ==
  Cardinality({a \in Recorded(m, s) : a.keeper = p})
    + IF Participants(m, s) = {p} /\ score[m][Other(s)] > Cardinality(Recorded(m, s))
      THEN score[m][Other(s)] - Cardinality(Recorded(m, s)) ELSE 0

-----------------------------------------------------------------------------
(* Statistics *)

(* statistics_from_actions *)
TallyOf(p, some) ==
  [goals |-> Cardinality(Kinds(p, "goal", some)), assists |-> Cardinality(Kinds(p, "assist", some)),
   own_goals |-> Cardinality(Kinds(p, "own_goal", some))]

FromSheet(some)      == [p \in Person |-> TallyOf(p, some)]
ScoreOfSheet(some)   == [s \in Side |-> Cardinality({a \in some : Against(a, Other(s))})]

Total(f, s, t) == MapThenSumSet(LAMBDA p : t[p][f], Squad[s])

(* save_statistics *)
AddsUp(t, sc) ==
  \A s \in Side :
    /\ Total("goals", s, t) + Total("own_goals", Other(s), t) = sc[s]
    /\ Total("assists", s, t) <= Total("goals", s, t)
    /\ \A p \in Squad[s] : t[p].assists <= Total("goals", s, t) - t[p].goals

Reports(sc) == {t \in [Person -> [goals : 0 .. MaxGoals, assists : 0 .. MaxGoals, own_goals : 0 .. MaxGoals]] : AddsUp(t, sc)}

-----------------------------------------------------------------------------
(* Rankings and awards, of what will hold after the step *)

Played == {m \in Match : ~Open(m) /\ ~walkover[m]}

Scored(f, p)  == MapThenSumSet(LAMBDA m : stats[m][p][f], Match)
Guarded(p)    == {m \in Played : p \in Participants(m, SideOf(p))}
LetIn(p)      == MapThenSumSet(LAMBDA m : ConcededBy(m, SideOf(p), p), Guarded(p))

(* player_rankings leaves out the clubs disqualified.                      *)
Ranked == UNION {Squad[s] : s \in Side \ banned}

Eligible(f) ==
  IF f = "goals_conceded" THEN {p \in Ranked : Guarded(p) # {}} ELSE {p \in Ranked : Scored(f, p) > 0}

(* Less is better; the champion's players come first, then the smaller id. *)
Key(f, p) == IF f = "goals_conceded" THEN LetIn(p) ELSE -Scored(f, p)
Position(p) == IF SideOf(p) = champion THEN 1 ELSE 2

Ahead(f, p, q) ==
  \/ Key(f, p) < Key(f, q)
  \/ Key(f, p) = Key(f, q) /\ (Position(p) < Position(q) \/ (Position(p) = Position(q) /\ p <= q))

LeadersAll(f) == {p \in Eligible(f) : \A q \in Eligible(f) : Key(f, p) <= Key(f, q)}   \* mutant: ties are shared

Leaders(f) == {p \in Eligible(f) : \A q \in Eligible(f) : Ahead(f, p, q)}

(* award_championship, trophy_winners                                      *)
Awarded ==
  LET runnerUp == Side \ (banned \cup {champion})
      solo     == IF \A m \in Match : complete[m] THEN {"goals", "assists", "goals_conceded"} ELSE {}
  IN ({"champion"} \X Squad[champion])
       \cup ({"runner_up"} \X UNION {Squad[s] : s \in runnerUp})
       \cup UNION {{f} \X Leaders(f) : f \in solo}

-----------------------------------------------------------------------------
(* Launches *)

Launched(m, new) ==
  /\ sheet' = [sheet EXCEPT ![m] = Synced(@ \cup {new})]
  /\ history' = [history EXCEPT ![m] = Begun(m)]
  /\ started' = [started EXCEPT ![m] = TRUE]
  /\ UNCHANGED <<keeper, resultVars, editionVars>>

OnDuty(m, id, k, p) ==
  LET a == [id |-> id, kind |-> k, person |-> p, auto |-> FALSE, keeper |-> Nobody]
  IN [a EXCEPT !.keeper = IF \E s \in Side : Against(a, s)
                          THEN keeper[m][CHOOSE s \in Side : Against(a, s)] ELSE Nobody]

(* An id that is there already is the same launch, or is refused.          *)
AddAction(m, id, k, p) ==
  /\ Editable(m)
  /\ \A a \in sheet[m] : a.id # id
  /\ k \in {"yellow_card", "red_card"} => ~Expelled(p, sheet[m])
  /\ Launched(m, OnDuty(m, id, k, p))

(* Automatic expulsions are not removed; an unknown id changes nothing.    *)
RemoveAction(m, id) ==
  /\ Editable(m)
  /\ \E a \in sheet[m] : a.id = id /\ ~a.auto
  /\ sheet' = [sheet EXCEPT ![m] = Synced({a \in sheet[m] : a.id # id})]
  /\ UNCHANGED <<keeper, history, started, resultVars, editionVars>>

-----------------------------------------------------------------------------
(* Goalkeepers of a match *)

(* Of the clubs in f, those whose keeper really changes.                   *)
Changed(m, f) == {s \in DOMAIN f : f[s] # keeper[m][s]}

Stint(m, f) ==
  [s \in Side |-> IF s \in Changed(m, f) THEN Append(Begun(m)[s], f[s]) ELSE Begun(m)[s]]

SetGoalkeepersUnrecorded(m, f) ==            \* mutant: the change is not in the history
  /\ Editable(m)
  /\ Changed(m, f) # {}
  /\ \A s \in DOMAIN f : IF f[s] = Nobody THEN ~started[m] \/ s \notin Changed(m, f) ELSE f[s] \in Squad[s]
  /\ keeper' = [keeper EXCEPT ![m] = [s \in Side |-> IF s \in DOMAIN f THEN f[s] ELSE keeper[m][s]]]
  /\ history' = IF started[m] THEN [history EXCEPT ![m] = Begun(m)] ELSE history
  /\ UNCHANGED <<sheet, started, resultVars, editionVars>>

(* Once the match has begun, somebody must come in.                        *)
SetGoalkeepers(m, f) ==
  /\ Editable(m)
  /\ Changed(m, f) # {}
  /\ \A s \in DOMAIN f : IF f[s] = Nobody THEN ~started[m] \/ s \notin Changed(m, f) ELSE f[s] \in Squad[s]
  /\ \A s \in Changed(m, f) : Len(history[m][s]) < MaxStints
  /\ keeper' = [keeper EXCEPT ![m] = [s \in Side |-> IF s \in DOMAIN f THEN f[s] ELSE keeper[m][s]]]
  /\ history' = IF started[m] THEN [history EXCEPT ![m] = Stint(m, f)] ELSE history
  /\ UNCHANGED <<sheet, started, resultVars, editionVars>>

KickoffMatch(m) ==
  /\ Editable(m)
  /\ history' = [history EXCEPT ![m] = Begun(m)]
  /\ started' = [started EXCEPT ![m] = TRUE]
  /\ UNCHANGED <<sheet, keeper, resultVars, editionVars>>

-----------------------------------------------------------------------------
(* Results *)

(***************************************************************************)
(* What progress_championship makes of this: the edition goes on while     *)
(* matches are open and nobody is alone in it; which of the eligible clubs *)
(* is its champion is the matter of Championship.                          *)
(***************************************************************************)
Progressed ==
  IF Side \ banned' # {} /\ (Cardinality(Side \ banned') = 1 \/ \A m \in Match : ~Open(m)')
  THEN /\ champion' \in Side \ banned'
       /\ awards' = Awarded'
  ELSE UNCHANGED <<champion, awards>>

(* Nobody says to whom of several keepers the goals of a bare result go.   *)
Ambiguous(m, sc) ==
  \E s \in Side : Cardinality({Begun(m)[s][i] : i \in DOMAIN Begun(m)[s]}) > 1 /\ sc[Other(s)] > 0

Result(m, sc, t, full) ==
  /\ score' = [score EXCEPT ![m] = sc]
  /\ stats' = [stats EXCEPT ![m] = t]
  /\ complete' = [complete EXCEPT ![m] = full]
  /\ history' = [history EXCEPT ![m] = Begun(m)]
  /\ started' = [started EXCEPT ![m] = TRUE]
  /\ UNCHANGED <<sheet, keeper, walkover, banned>>
  /\ Progressed

ScoreUnchecked(m) ==                         \* mutant: whatever the launches add up to
  /\ Editable(m) /\ sheet[m] # {}
  /\ Result(m, ScoreOfSheet(sheet[m]), FromSheet(sheet[m]), TRUE)

(* The client sends the ids of the launches it has seen: all there are, or *)
(* it is told that the sheet has changed.                                  *)
ScoreFromSheet(m) ==
  /\ Editable(m) /\ sheet[m] # {}
  /\ AddsUp(FromSheet(sheet[m]), ScoreOfSheet(sheet[m]))
  /\ Result(m, ScoreOfSheet(sheet[m]), FromSheet(sheet[m]), TRUE)

ScoreAmbiguous(m) ==                         \* mutant: whoever kept the goal
  /\ Editable(m) /\ sheet[m] = {}
  /\ \E sc \in [Side -> 0 .. MaxGoals] :
       \/ Result(m, sc, [p \in Person |-> NoTally], \A s \in Side : sc[s] = 0)
       \/ \E t \in Reports(sc) : Result(m, sc, t, TRUE)

(* Older clients send no launches, with or without statistics.             *)
ScoreAlone(m) ==
  /\ Editable(m) /\ sheet[m] = {}
  /\ \E sc \in [Side -> 0 .. MaxGoals] :
       /\ ~Ambiguous(m, sc)
       /\ \/ Result(m, sc, [p \in Person |-> NoTally], \A s \in Side : sc[s] = 0)
          \/ \E t \in Reports(sc) : Result(m, sc, t, TRUE)

(* A match without launches, keepers and history, won or lost.             *)
WalkedOver(m, sc) ==
  /\ score' = [n \in Match |-> IF n \in m THEN sc[n] ELSE score[n]]
  /\ walkover' = [n \in Match |-> walkover[n] \/ n \in m]
  /\ complete' = [n \in Match |-> complete[n] \/ n \in m]
  /\ keeper' = [n \in Match |-> IF n \in m THEN [s \in Side |-> Nobody] ELSE keeper[n]]
  /\ history' = [n \in Match |-> IF n \in m THEN [s \in Side |-> <<>>] ELSE history[n]]
  /\ UNCHANGED <<started, stats>>

Walkover(m, w) ==
  /\ Editable(m)
  /\ sheet[m] = {} /\ ~started[m]
  /\ WalkedOver({m}, [n \in {m} |-> [s \in Side |-> IF s = w THEN 3 ELSE 0]])
  /\ UNCHANGED <<sheet, banned>>
  /\ Progressed

(* punish; the other club must stay.  Pending matches are cleared.         *)
Disqualify(s) ==
  /\ champion = NoClub /\ banned = {}
  /\ banned' = {s}
  /\ LET pending == {m \in Match : Open(m)}
     IN /\ WalkedOver(pending, [n \in pending |-> [t \in Side |-> IF t = s THEN 0 ELSE 3]])
        /\ sheet' = [m \in Match |-> IF m \in pending THEN {} ELSE sheet[m]]
  /\ Progressed

-----------------------------------------------------------------------------
(* The keepers a match begins with are those of the entries (Clubs).       *)
Init ==
  /\ sheet = [m \in Match |-> {}]
  /\ \E f \in [Side -> Keeper] :
       /\ \A s \in Side : f[s] \in Squad[s] \cup {Nobody}
       /\ keeper = [m \in Match |-> f]
  /\ history = [m \in Match |-> [s \in Side |-> <<>>]]
  /\ started = [m \in Match |-> FALSE]
  /\ score = [m \in Match |-> Undecided]
  /\ walkover = [m \in Match |-> FALSE]
  /\ complete = [m \in Match |-> FALSE]
  /\ stats = [m \in Match |-> [p \in Person |-> NoTally]]
  /\ banned = {}
  /\ champion = NoClub
  /\ awards = {}

SheetStep(m) ==
  \/ \E id \in Id : RemoveAction(m, id) \/ \E k \in Kind, p \in Person : AddAction(m, id, k, p)
  \/ \E some \in (SUBSET Side) \ {{}} : \E f \in [some -> Keeper] : SetGoalkeepers(m, f)
  \/ KickoffMatch(m)

ResultStep(m) ==
  \/ ScoreFromSheet(m)
  \/ ScoreAlone(m)
  \/ \E w \in Side : Walkover(m, w)

Next ==
  \/ \E m \in Match : SheetStep(m) \/ ResultStep(m)
  \/ \E s \in Side : Disqualify(s)

Spec == Init /\ [][Next]_vars

-----------------------------------------------------------------------------
(***************************************************************************)
(* Rows of matches, launches with ids of their own, results, awards; what  *)
(* is launched has begun the match, and a match that has begun has a       *)
(* history of its goalkeepers.                                             *)
(***************************************************************************)
TypeOK ==
  /\ \A m \in Match :
       /\ sheet[m] \subseteq Launch
       /\ \A a, b \in sheet[m] : a.id = b.id => a = b
       /\ keeper[m] \in [Side -> Keeper]
       /\ history[m] \in [Side -> Seq(Keeper)]
       /\ Open(m) \/ score[m] \in [Side -> Nat]
       /\ stats[m] \in [Person -> Tally]
       /\ sheet[m] # {} => started[m]
       /\ started[m] /\ ~walkover[m] <=> \A s \in Side : history[m][s] # <<>>
  /\ {started, walkover, complete} \subseteq [Match -> BOOLEAN]
  /\ banned \subseteq Side
  /\ champion \in Side \cup {NoClub}
  /\ awards \subseteq Category \X Person

(***************************************************************************)
(* Yellow and red cards launched, corrected and repeated in any order: two *)
(* yellow cards and no red one make exactly one automatic expulsion, less  *)
(* never do, and nobody gets a card after it.                              *)
(***************************************************************************)
ExpulsionsAreExact ==
  \A m \in Match, p \in Person :
    LET yellows == Kinds(p, "yellow_card", sheet[m])
        reds    == Kinds(p, "red_card", sheet[m])
    IN /\ Cardinality(yellows) <= 2 /\ Cardinality(reds) <= 1
       /\ (\E a \in reds : a.auto) <=> Cardinality(yellows) = 2
       /\ \A a \in Of(p, sheet[m]) : a.auto => a \in reds

(***************************************************************************)
(* Feedback.md: a goal conceded belongs to who kept the goal at that       *)
(* moment, own goals included, and removing one does not move the others.  *)
(* So each is charged to a goalkeeper of the club it went against, who is  *)
(* in the history; and the history ends with who is there now.  The rows   *)
(* are what they should be throughout.                                     *)
(***************************************************************************)
GoalsHaveTheirKeeper ==
  /\ TypeOK
  /\ \A m \in Match, s \in Side :
    /\ \A a \in Recorded(m, s) :
         a.keeper \in Squad[s] \cup {Nobody} /\ \E i \in DOMAIN history[m][s] : history[m][s][i] = a.keeper
    /\ history[m][s] # <<>> => history[m][s][Len(history[m][s])] = keeper[m][s]

(***************************************************************************)
(* Of a match that was played, the goals conceded by the goalkeepers of a  *)
(* club, and those that went in while nobody was named, are the goals of   *)
(* the other club, with launches or without.                               *)
(***************************************************************************)
EveryGoalIsConceded ==
  \A m \in Played, s \in Side :
    LET kept   == MapThenSumSet(LAMBDA p : ConcededBy(m, s, p), Participants(m, s))
        nobody == Cardinality({a \in Recorded(m, s) : a.keeper = Nobody})
    IN IF sheet[m] # {} THEN kept + nobody = score[m][Other(s)]
       ELSE Participants(m, s) # {} => kept = score[m][Other(s)]

(***************************************************************************)
(* Complete statistics are those of the launches, if there are any, and    *)
(* add up to the result: goals and own goals, no more assists than goals,  *)
(* and nobody assists his own.                                             *)
(***************************************************************************)
StatisticsAddUp ==
  \A m \in Played :
    /\ complete[m] => AddsUp(stats[m], score[m])
    /\ sheet[m] # {} => complete[m] /\ stats[m] = FromSheet(sheet[m])

(***************************************************************************)
(* One winner at most in each individual category, of a club that was not  *)
(* disqualified, and none unless all statistics are complete: nobody in    *)
(* the edition scored or assisted more, no goalkeeper let in fewer, and    *)
(* among equals a player of the champion is preferred.                     *)
(***************************************************************************)
AwardsAreEarned ==
  \A f \in {"goals", "assists", "goals_conceded"} :
    LET named == {p \in Person : <<f, p>> \in awards}
    IN /\ Cardinality(named) <= 1
       /\ \A p \in named, q \in Person :
            /\ \A m \in Match : complete[m]
            /\ SideOf(p) \notin banned
            /\ f # "goals_conceded" /\ SideOf(q) \notin banned => Scored(f, p) >= Scored(f, q) /\ Scored(f, p) > 0
            /\ f = "goals_conceded" /\ SideOf(q) \notin banned /\ Guarded(q) # {} => LetIn(p) <= LetIn(q)
            /\ q \in Eligible(f) /\ Key(f, p) = Key(f, q) /\ SideOf(q) = champion => SideOf(p) = champion
=============================================================================
