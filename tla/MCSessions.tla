----------------------------- MODULE MCSessions -----------------------------
(***************************************************************************)
(* Sessions for TLC.  None of the modules changes what another keeps, so   *)
(* each is checked while the others rest: "part" is the one that moves.    *)
(* Garbage is memory that was cleared: where it holds a late time, a       *)
(* connection that is silent from the start stays until then.              *)
(***************************************************************************)
EXTENDS Sessions, TLC

CONSTANTS
    alice, bob,         \* alice is an administrator
    kink1, kink2, tag

VARIABLE part

MCKinksOf == alice :> {kink1} @@ bob :> {kink1, kink2}
MCTagOf == alice :> tag @@ bob :> tag

ASSUME TimesAssumption ==
    I!TimesAssumption /\ I!SlackAssumption /\ I!PastAssumption
ASSUME PresenceAssumption == P!PresenceAssumption

idle ==
    <<now, protocol, lastActivity, timer, ping, ident, connected, heard, askedAt,
      owed, well>>

presence == <<session, status, kinkList, full, view, missed, rewarded, found>>

MCInit ==
    /\ part \in {"handlers", "connection", "presence"}
    /\ Init /\ I!Init /\ P!Init
    /\ part # "handlers" => sL = CHOOSE s \in State : TRUE

MCNext ==
    \/ part = "handlers" /\ Next /\ UNCHANGED <<part, idle, presence>>
    \/ part = "connection" /\ I!Next /\ UNCHANGED <<part, vars, presence>>
    \/ part = "presence" /\ P!Next /\ UNCHANGED <<part, vars, idle>>

MCSpec == MCInit /\ [][MCNext]_<<part, vars, idle, presence>>
=============================================================================
