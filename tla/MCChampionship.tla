---------------------------- MODULE MCChampionship ----------------------------
(***************************************************************************)
(* Small editions.  Clubs are numbers, so that a seed can be read off them *)
(* where an instance starts from an edition whose entries are closed.      *)
(***************************************************************************)
EXTENDS Championship

CONSTANTS
  Clubs,         \* how many clubs there are
  MaxTouched     \* see FewTouched

MCClub == 1 .. Clubs

Of(f, n) == [format |-> f, capacity |-> n, homeAndAway |-> FALSE]

Leagues   == {[format |-> "league", capacity |-> 2, homeAndAway |-> legs] : legs \in BOOLEAN}
Cascades  == {Of("cascade", 4)}
Smallest  == Leagues \cup {Of(f, 4) : f \in {"knockout", "cascade", "groups_knockout"}}
Brackets  == {Of("knockout", 8), Of("groups_knockout", 8)}

GoalsFew == {<<1, 0>>, <<0, 0>>}
Goalless == {<<0, 0>>}

(***************************************************************************)
(* Later starts: the entries are closed, the groups as they come or dealt  *)
(* out one by one.  Either the last initial fixture alone is left, the     *)
(* home side having won the others, or, in groups, nothing has begun yet.  *)
(* Registrations, Start and Score lead here.                               *)
(***************************************************************************)
Dealt == [c \in Club |-> 1 + (c % (Clubs \div GroupSize))]

LateMatches(groups, left) ==
  LET all == InitialFixtures(groups)
  IN [i \in DOMAIN all |->
        IF i > Len(all) - left THEN all[i]
        ELSE [all[i] EXCEPT !.mark = "begun", !.decided = TRUE, !.score = <<1, 0>>, !.winner = all[i].home]]

InGroups == rules.format = "groups_knockout"

LateInit ==
  /\ rules \in Edition
  /\ status = "in_progress"
  /\ entries = [i \in 1 .. Clubs |-> i]
  /\ pool \in {[c \in Club |-> 0]} \cup (IF InGroups THEN {Dealt} ELSE {})
  /\ banned = {}
  /\ deducted = [c \in Club |-> 0]
  /\ \E left \in {1} \cup (IF InGroups THEN {Len(InitialFixtures(pool))} ELSE {}) :
       matches = LateMatches(pool, left)
  /\ champion = NoClub

Played == {i \in DOMAIN matches : matches[i].decided} # {}

(* Nobody is disqualified before the first result, and no points are taken. *)
LateNext ==
  \/ AssignGroups
  \/ \E i \in DOMAIN matches : SetGoalkeepers(i) \/ KickoffMatch(i) \/ Result(i)
  \/ Played /\ \E S \in SUBSET Club : Disqualify(S)

LateSpec == LateInit /\ [][LateNext]_vars

-----------------------------------------------------------------------------
(* Bounds *)

(* So many matches have begun, or have a goalkeeper of their own, without a *)
(* result; in a cascade, where they come one by one, none.                  *)
FewTouched ==
  Cardinality({i \in DOMAIN matches : ~matches[i].decided /\ matches[i].mark # "nothing"})
    <= IF rules.format = "cascade" THEN 0 ELSE MaxTouched

(* The edition is followed to the first result or punishment only. *)
OnlyFixtures ==
  /\ \A i \in DOMAIN matches : ~matches[i].decided
  /\ \A c \in Club : deducted[c] = 0

(* Clubs register in any order, and play when it is that of their numbers. *)
PlayedInOrder == status = "in_progress" => \A i \in DOMAIN entries : entries[i] = i

(* The same, and nobody withdraws. *)
Closed == \A i \in DOMAIN entries : entries[i] = i

(* Leagues of four and five and groups are followed no further than that. *)
ShortSeason ==
  rules.format = "groups_knockout" \/ (rules.format = "league" /\ Len(entries) > IF rules.homeAndAway THEN 2 ELSE 3)
    => OnlyFixtures

(* Disqualifications all come in one request, at any time. *)
PunishedOnce == banned = {} \/ banned' = banned

(* The same from a late start: MaxTouched before the first result, then    *)
(* none; and groups nothing of which was played are not followed further.  *)
FewTouchedLate ==
  Cardinality({i \in DOMAIN matches : ~matches[i].decided /\ matches[i].mark # "nothing"})
    <= IF Played THEN 0 ELSE MaxTouched

OnFixturesOrLate ==
  Played => Cardinality({i \in DOMAIN matches : matches[i].decided}) >= 3

(* Groups are followed to the knockout. *)
UpToKnockout == rules.format = "groups_knockout" =>
  \A i \in DOMAIN matches : matches[i].stage = "knockout" => ~matches[i].decided
=============================================================================
