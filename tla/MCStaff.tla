------------------------------ MODULE MCStaff -------------------------------
(***************************************************************************)
(* Supervision for TLC, with two characters of one account and a moderator *)
(* who is an admin.  Neither module changes what the other keeps, so each  *)
(* is checked while the other rests: "part" is the one that moves.         *)
(***************************************************************************)
EXTENDS Supervision

CONSTANTS c1, c2, boss, a1, a2

VARIABLE part

MCChar == {c1, c2, boss}
MCAccountOf == [c \in MCChar |-> IF c = boss THEN a2 ELSE a1]

ASSUME ModerationAssumption == M!ModerationAssumption

moderation ==
    <<connected, roles, targets, opList, bans, timeouts, invites, inside, clock,
      demoted>>

MCInit ==
    /\ part \in {"calls", "moderation"}
    /\ Init /\ M!Init
    /\ part # "calls" => mods = {}
    /\ part # "moderation" => bans = [a \in Account |-> NoChar]

MCNext ==
    \/ part = "calls" /\ Next /\ UNCHANGED <<part, moderation>>
    \/ part = "moderation" /\ M!Next /\ UNCHANGED <<part, vars>>

MCSpec == MCInit /\ [][MCNext]_<<part, vars, moderation>>
=============================================================================
