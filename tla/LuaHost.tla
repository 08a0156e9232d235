------------------------------- MODULE LuaHost -------------------------------
(***************************************************************************)
(* The Lua states the handlers run in: the global one, and one of its own  *)
(* for a connection that an administrator has isolated; how they are       *)
(* loaded anew while the server runs; and the hook that ends a handler     *)
(* which runs for too long (server.cpp, connection.cpp and the debug       *)
(* command in native_command.cpp).                                         *)
(*                                                                         *)
(* The hook is called every so many instructions; here, at every step of a *)
(* handler's work.  Loading a script takes no time and works or fails.     *)
(***************************************************************************)
EXTENDS Integers

CONSTANTS
    Con,            \* connections of administrators
    State,          \* Lua states
    NoState,        \* 0, of a connection that is not isolated
    luaTimeout,        \* steps a handler may run
    luaRepeatTimeout,  \* steps it may run once another had to be ended
    MaxRun          \* bound on the steps that are counted

ASSUME StateAssumption == NoState \notin State
ASSUME TimeoutAssumption ==
    luaTimeout \in Nat /\ luaRepeatTimeout \in Nat /\ MaxRun \in Nat

VARIABLES
    sL,             \* the global state
    debugL,         \* that of an isolated connection
    open,           \* states that are not closed
    hooked,         \* states that have the time hook
    running,        \* the handler that runs: its kind and its state
    luaTimer,       \* steps since luaTimer was set
    luaInTimeout, luaCanTimeout,
    ran,            \* history: steps the handler has run
    late            \* history: was a handler ended in this iteration of the
                    \* event loop, and no script loaded since

vars == <<sL, debugL, open, hooked, running, luaTimer, luaInTimeout,
          luaCanTimeout, ran, late>>
states == <<sL, debugL, open, hooked>>
Idle == <<>>

-----------------------------------------------------------------------------
(* The event loop *)

\* prepareCallback, once in an iteration of the loop.
Prepare ==
    /\ running = Idle
    /\ luaInTimeout' = FALSE /\ late' = FALSE
    /\ UNCHANGED <<states, running, luaTimer, luaCanTimeout, ran>>

StartTimer == luaTimer' = 0

Start(kind, L) == running = Idle /\ running' = [kind |-> kind, state |-> L] /\ ran' = 0

\* runLuaEvent: a command of a connection.
RunLuaEvent(c) ==
    /\ Start("event", IF debugL[c] # NoState THEN debugL[c] ELSE sL)
    /\ StartTimer
    /\ UNCHANGED <<states, luaInTimeout, luaCanTimeout, late>>

\* processLogin, processHTTPReply, runLuaRTB: always in the global state.
RunGlobal ==
    /\ Start("event", sL)
    /\ StartTimer
    /\ UNCHANGED <<states, luaInTimeout, luaCanTimeout, late>>

\* prepareShutdownConnection lets pre_disconnect take its time.
PreDisconnect ==
    /\ Start("pre_disconnect", sL)
    /\ luaCanTimeout' = FALSE
    /\ UNCHANGED <<states, luaTimer, luaInTimeout, late>>

Limit == IF luaInTimeout THEN luaRepeatTimeout ELSE luaTimeout

Overdue ==
    running # Idle /\ running.state \in hooked /\ luaCanTimeout /\ luaTimer > Limit

Work ==
    /\ running # Idle /\ ~Overdue /\ ran < MaxRun
    /\ luaTimer' = (IF luaTimer < MaxRun THEN luaTimer + 1 ELSE MaxRun) /\ ran' = ran + 1
    /\ UNCHANGED <<states, running, luaInTimeout, luaCanTimeout, late>>

\* The handler ends by itself, with an error of its own perhaps.
Return ==
    /\ running # Idle
    /\ running' = Idle /\ ran' = 0
    /\ luaCanTimeout' = TRUE
    /\ UNCHANGED <<states, luaTimer, luaInTimeout, late>>

\* Mutated form of TimeHook: the next handler has all the time again.
TimeHookForgets ==
    /\ Overdue
    /\ running' = Idle /\ ran' = 0
    /\ late' = TRUE
    /\ UNCHANGED <<states, luaTimer, luaInTimeout, luaCanTimeout>>

\* luaTimeHook: the handler is ended where it is.
TimeHook ==
    /\ Overdue
    /\ running' = Idle /\ ran' = 0
    /\ luaInTimeout' = TRUE /\ late' = TRUE
    /\ UNCHANGED <<states, luaTimer, luaCanTimeout>>

-----------------------------------------------------------------------------
(* Loading, from the debug command, which runs in no Lua state *)

\* loadLuaIntoState: the hook goes to the global state, whichever is loaded.
LoadLuaIntoState ==
    /\ hooked' = hooked \cup {sL}
    /\ luaTimer' = 0 /\ luaInTimeout' = FALSE /\ late' = FALSE

\* The script fails before anything of it was called.
LoadFails ==
    /\ running = Idle
    /\ hooked' = hooked \cup {sL} /\ luaTimer' = 0
    /\ UNCHANGED <<sL, debugL, open, running, luaInTimeout, luaCanTimeout, ran, late>>

ReloadLuaState(new) ==
    /\ running = Idle /\ new \in State \ open
    /\ luaTimer' = 0 /\ luaInTimeout' = FALSE /\ late' = FALSE
    /\ hooked' = hooked \ {sL}
    /\ sL' = new /\ open' = (open \ {sL}) \cup {new}
    /\ UNCHANGED <<debugL, running, luaCanTimeout, ran>>

IsolateLua(c, new) ==
    /\ running = Idle /\ debugL[c] = NoState /\ new \in State \ open
    /\ LoadLuaIntoState
    /\ debugL' = [debugL EXCEPT ![c] = new] /\ open' = open \cup {new}
    /\ UNCHANGED <<sL, running, luaCanTimeout, ran>>

ReloadIsolation(c, new) ==
    /\ running = Idle /\ debugL[c] # NoState /\ new \in State \ open
    /\ LoadLuaIntoState
    /\ debugL' = [debugL EXCEPT ![c] = new]
    /\ open' = (open \ {debugL[c]}) \cup {new}
    /\ UNCHANGED <<sL, running, luaCanTimeout, ran>>

\* deisolateLua, and the end of the connection.
DeisolateLua(c) ==
    /\ running = Idle /\ debugL[c] # NoState
    /\ debugL' = [debugL EXCEPT ![c] = NoState] /\ open' = open \ {debugL[c]}
    /\ UNCHANGED <<sL, hooked, running, luaTimer, luaInTimeout, luaCanTimeout, ran, late>>

-----------------------------------------------------------------------------

\* initLua: the first state has the hook.
Init ==
    /\ sL \in State /\ open = {sL} /\ hooked = {sL}
    /\ debugL = [c \in Con |-> NoState]
    /\ running = Idle
    /\ luaTimer = 0 /\ luaInTimeout = FALSE /\ luaCanTimeout = TRUE
    /\ ran = 0 /\ late = FALSE

Next ==
    \/ Prepare \/ RunGlobal \/ PreDisconnect \/ Work \/ Return \/ TimeHook \/ LoadFails
    \/ \E c \in Con : RunLuaEvent(c) \/ DeisolateLua(c)
    \/ \E new \in State :
         \/ ReloadLuaState(new)
         \/ \E c \in Con : IsolateLua(c, new) \/ ReloadIsolation(c, new)

Spec == Init /\ [][Next]_vars

-----------------------------------------------------------------------------
(* Properties *)

TypeOK ==
    /\ sL \in State /\ debugL \in [Con -> State \cup {NoState}]
    /\ open \subseteq State /\ hooked \subseteq State
    /\ running # Idle => running \in [kind : {"event", "pre_disconnect"}, state : State]
    /\ luaTimer \in 0 .. MaxRun /\ ran \in 0 .. MaxRun
    /\ {luaInTimeout, luaCanTimeout, late} \subseteq BOOLEAN

\* Through reloads that work and that fail, the states that are open are the
\* global one and those of the isolated connections, no two the same: none
\* is lost, and none is used after it was closed.
StatesInUse ==
    /\ open = {sL} \cup {debugL[c] : c \in {d \in Con : debugL[d] # NoState}}
    /\ \A c \in Con : debugL[c] # sL
    /\ \A c \in Con, d \in Con : debugL[c] = debugL[d] => c = d \/ debugL[c] = NoState
    /\ running # Idle => running.state \in open
    /\ hooked \subseteq open

\* One slow handler in an iteration of the loop is let run, the next ones
\* are cut short: the iteration does not take many times luaTimeout.
LaterOnesAreShort ==
    running # Idle /\ running.kind = "event" /\ running.state \in hooked =>
        ran <= 1 + IF late THEN luaRepeatTimeout ELSE luaTimeout

\* No handler is ended before it has had the time it may take.
HandlersHaveTheirTime == Overdue => ran > Limit

\* The farewell of a connection is never ended half way by the hook, and the
\* hook is on again for whatever runs next.
OnlyFarewellsAreExempt ==
    IF running = Idle THEN luaCanTimeout
    ELSE luaCanTimeout <=> running.kind # "pre_disconnect"

\* What an iteration of the event loop can rely on of the Lua states and of
\* the hook.
HandlersOK ==
    /\ TypeOK /\ StatesInUse
    /\ LaterOnesAreShort /\ HandlersHaveTheirTime /\ OnlyFarewellsAreExempt

\* startup_config.lua.sample: "Should lua time out event handlers.", and
\* "luaenabletimeout=true".
HandlersTimeOut ==
    running # Idle /\ running.kind = "event" => ran <= luaTimeout + 1
=============================================================================
