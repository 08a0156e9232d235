--------------------------- MODULE SessionsProofs ---------------------------
(***************************************************************************)
(* Proofs about LuaHost, IdleTimeout and Presence, for any number of       *)
(* connections, states and characters and any time-outs.                   *)
(*                                                                         *)
(* LuaHost: no state is lost or used after it was closed, and the hook     *)
(* ends handlers neither too early nor, where it is set, too late.  The    *)
(* states (StatesInUse) are changed by loading only, which nothing runs    *)
(* during; the clock (Clock) by handlers only.  Clock is what the          *)
(* properties of time rest on: luaTimer is the time of the handler that    *)
(* runs, as every handler but the farewell sets it when it starts.         *)
(*                                                                         *)
(* IdleTimeout: pings go out and are answered in time (PingsInTime),       *)
(* so a client that is well is heard before its timer.  That a connection  *)
(* has its period needs less: lastActivity is the time of the last data    *)
(* (ActivityIsKnown), or memory that was not set.                          *)
(*                                                                         *)
(* Presence: a list a client has not missed a message for is what the      *)
(* server knows; crowns and kinks come from one place each.                *)
(***************************************************************************)
EXTENDS Sessions, FiniteSets, TLAPS

-----------------------------------------------------------------------------
(* LuaHost *)

Clock ==
    /\ luaInTimeout = late
    /\ running # Idle /\ running.kind = "event" => luaTimer = ran

Inv ==
    /\ TypeOK /\ StatesInUse /\ OnlyFarewellsAreExempt
    /\ Clock /\ LaterOnesAreShort
    /\ hooked \subseteq {sL}

-----------------------------------------------------------------------------

LEMMA NotIdle ==
    ASSUME NEW kind, NEW L
    PROVE  [kind |-> kind, state |-> L] # Idle
<1> DEFINE r == [kind |-> kind, state |-> L]
<1>1. "kind" \in DOMAIN r
  OBVIOUS
<1>2. DOMAIN Idle = {}
  BY DEF Idle
<1>3. "kind" \notin DOMAIN Idle
  BY <1>2
<1> QED BY <1>1, <1>3

LEMMA Initially == ASSUME StateAssumption, TimeoutAssumption, Init PROVE Inv
<1>1. running = Idle
  BY DEF Init
<1>2. TypeOK
  <2>1. luaTimer \in 0 .. MaxRun /\ ran \in 0 .. MaxRun
    BY DEF Init, TimeoutAssumption
  <2>2. {luaInTimeout, luaCanTimeout, late} \subseteq BOOLEAN
    BY DEF Init
  <2>3. sL \in State /\ debugL \in [Con -> State \cup {NoState}] /\ open \subseteq State
        /\ hooked \subseteq State
    BY DEF Init
  <2> QED BY <1>1, <2>1, <2>2, <2>3 DEF TypeOK
<1>3. StatesInUse
  BY <1>1 DEF Init, StatesInUse, StateAssumption
<1> QED BY <1>1, <1>2, <1>3 DEF Init, Inv, OnlyFarewellsAreExempt, Clock, LaterOnesAreShort

\* A handler starts in the global state or in that of a connection.
LEMMA StartKeeps ==
    ASSUME StateAssumption, TimeoutAssumption, Inv,
           \/ \E c \in Con : RunLuaEvent(c)
           \/ RunGlobal
    PROVE  Inv'
<1>1. PICK L \in State :
         /\ running' = [kind |-> "event", state |-> L] /\ L \in open
  BY DEF RunLuaEvent, RunGlobal, Start, Inv, TypeOK, StatesInUse
<1>2. /\ running = Idle /\ ran' = 0 /\ luaTimer' = 0
      /\ UNCHANGED <<sL, debugL, open, hooked, luaInTimeout, luaCanTimeout, late>>
  BY DEF RunLuaEvent, RunGlobal, Start, StartTimer, states
<1>3. TypeOK'
  <2>1. luaTimer' \in 0 .. MaxRun /\ ran' \in 0 .. MaxRun
    BY <1>1, <1>2 DEF Inv, TypeOK, TimeoutAssumption
  <2>2. {luaInTimeout', luaCanTimeout', late'} \subseteq BOOLEAN
    BY <1>2 DEF Inv, TypeOK
  <2>3. running' # Idle => running' \in [kind : {"event", "pre_disconnect"}, state : State]
    BY <1>1 DEF Inv, TypeOK
  <2> QED BY <1>1, <1>2, <2>1, <2>2, <2>3 DEF Inv, TypeOK
<1>4. StatesInUse'
  BY <1>1, <1>2 DEF Inv, StatesInUse
<1>5. running'.kind = "event" /\ running' # Idle
  BY <1>1, NotIdle
<1>6. OnlyFarewellsAreExempt' /\ Clock' /\ LaterOnesAreShort'
  BY <1>2, <1>5 DEF Inv, OnlyFarewellsAreExempt, Clock, LaterOnesAreShort, TimeoutAssumption
<1> QED BY <1>2, <1>3, <1>4, <1>6 DEF Inv

\* The farewell starts, and the hook is off.
LEMMA PreDisconnectKeeps ==
    ASSUME StateAssumption, TimeoutAssumption, Inv, PreDisconnect
    PROVE  Inv'
<1>1. running' = [kind |-> "pre_disconnect", state |-> sL] /\ running = Idle /\ ran' = 0
  BY DEF PreDisconnect, Start
<1>2. /\ luaCanTimeout' = FALSE
      /\ UNCHANGED <<sL, debugL, open, hooked, luaTimer, luaInTimeout, late>>
  BY DEF PreDisconnect, states
<1>3. TypeOK'
  <2>1. luaTimer' \in 0 .. MaxRun /\ ran' \in 0 .. MaxRun
    BY <1>1, <1>2 DEF Inv, TypeOK, TimeoutAssumption
  <2>2. {luaInTimeout', luaCanTimeout', late'} \subseteq BOOLEAN
    BY <1>2 DEF Inv, TypeOK
  <2>3. running' # Idle => running' \in [kind : {"event", "pre_disconnect"}, state : State]
    BY <1>1 DEF Inv, TypeOK
  <2> QED BY <1>1, <1>2, <2>1, <2>2, <2>3 DEF Inv, TypeOK
<1>4. StatesInUse'
  BY <1>1, <1>2 DEF Inv, StatesInUse
<1>5. running'.kind = "pre_disconnect" /\ running' # Idle
  BY <1>1, NotIdle
<1>6. OnlyFarewellsAreExempt' /\ Clock' /\ LaterOnesAreShort'
  BY <1>2, <1>5 DEF Inv, OnlyFarewellsAreExempt, Clock, LaterOnesAreShort
<1> QED BY <1>2, <1>3, <1>4, <1>6 DEF Inv

\* The hook lets a handler run a step further only within its limit.
LEMMA WorkKeeps ==
    ASSUME TimeoutAssumption, Inv, Work
    PROVE  Inv'
<1>1. /\ running # Idle /\ ~Overdue /\ ran < MaxRun /\ ran' = ran + 1
      /\ luaTimer' = IF luaTimer < MaxRun THEN luaTimer + 1 ELSE MaxRun
      /\ UNCHANGED <<sL, debugL, open, hooked, running, luaInTimeout, luaCanTimeout, late>>
  BY DEF Work, states
<1>2. luaTimer \in 0 .. MaxRun /\ ran \in 0 .. MaxRun /\ MaxRun \in Nat
  BY DEF Inv, TypeOK, TimeoutAssumption
<1>3. luaTimer' \in 0 .. MaxRun /\ ran' \in 0 .. MaxRun
  BY <1>1, <1>2
<1>4. TypeOK'
  BY <1>1, <1>3 DEF Inv, TypeOK
<1>5. StatesInUse' /\ OnlyFarewellsAreExempt'
  BY <1>1 DEF Inv, StatesInUse, OnlyFarewellsAreExempt
<1>6. Clock'
  BY <1>1, <1>2 DEF Inv, Clock
<1>7. LaterOnesAreShort'
  <2> SUFFICES ASSUME running.kind = "event", running.state \in hooked
               PROVE  ran + 1 <= 1 + IF late THEN luaRepeatTimeout ELSE luaTimeout
    BY <1>1 DEF LaterOnesAreShort
  <2>1. luaTimer = ran /\ luaInTimeout = late /\ luaCanTimeout
    BY <1>1 DEF Inv, Clock, OnlyFarewellsAreExempt
  <2>2. ~(luaTimer > Limit)
    BY <1>1, <2>1 DEF Overdue
  <2> QED BY <1>2, <2>1, <2>2 DEF Limit, TimeoutAssumption
<1> QED BY <1>1, <1>4, <1>5, <1>6, <1>7 DEF Inv

\* A handler ends, by itself or by the hook: no other runs, and none does
\* while scripts are loaded or an iteration of the loop begins.
LEMMA EndKeeps ==
    ASSUME TimeoutAssumption, Inv, Return \/ TimeHook \/ Prepare
    PROVE  Inv'
<1>1. /\ running' = Idle
      /\ UNCHANGED <<sL, debugL, open, hooked, luaTimer>>
      /\ ran' \in {0, ran}
  BY DEF Return, TimeHook, Prepare, states
<1>2. luaCanTimeout' /\ luaInTimeout' = late' /\ luaInTimeout' \in BOOLEAN
  <2>1. CASE Return
    BY <2>1 DEF Return, Inv, Clock, TypeOK
  <2>2. CASE TimeHook
    BY <2>2 DEF TimeHook, Overdue
  <2>3. CASE Prepare
    BY <2>3 DEF Prepare, Inv, OnlyFarewellsAreExempt
  <2> QED BY <2>1, <2>2, <2>3
<1>3. TypeOK'
  <2>1. luaTimer' \in 0 .. MaxRun /\ ran' \in 0 .. MaxRun
    BY <1>1, <1>2 DEF Inv, TypeOK, TimeoutAssumption
  <2>2. {luaInTimeout', luaCanTimeout', late'} \subseteq BOOLEAN
    BY <1>2 DEF Inv, TypeOK
  <2>3. running' # Idle => running' \in [kind : {"event", "pre_disconnect"}, state : State]
    BY <1>1 DEF Inv, TypeOK
  <2> QED BY <1>1, <1>2, <2>1, <2>2, <2>3 DEF Inv, TypeOK
<1>4. StatesInUse'
  BY <1>1 DEF Inv, StatesInUse
<1> QED BY <1>1, <1>2, <1>3, <1>4 DEF Inv, OnlyFarewellsAreExempt, Clock, LaterOnesAreShort

\* A step of loading keeps the rest if it keeps the states right: no handler
\* runs, and the hook is left or is that of a fresh script.
LEMMA LoadKeeps ==
    ASSUME TimeoutAssumption, Inv, running = Idle, running' = Idle,
           UNCHANGED <<luaCanTimeout, ran>>, luaTimer' \in {0, luaTimer},
           luaInTimeout' = late', luaInTimeout' \in BOOLEAN,
           sL' \in State, debugL' \in [Con -> State \cup {NoState}],
           open' \subseteq State, hooked' \subseteq {sL'}, StatesInUse'
    PROVE  Inv'
<1>1. TypeOK'
  BY DEF Inv, TypeOK, TimeoutAssumption
<1> QED BY <1>1 DEF Inv, OnlyFarewellsAreExempt, Clock, LaterOnesAreShort

LEMMA ReloadKeeps ==
    ASSUME StateAssumption, TimeoutAssumption, Inv, NEW new \in State,
           \/ ReloadLuaState(new)
           \/ \E c \in Con : IsolateLua(c, new) \/ ReloadIsolation(c, new)
    PROVE  Inv'
<1>0. /\ running = Idle /\ running' = Idle /\ new \notin open
      /\ UNCHANGED <<luaCanTimeout, ran>> /\ luaTimer' = 0
      /\ luaInTimeout' = FALSE /\ late' = FALSE
  BY DEF ReloadLuaState, IsolateLua, ReloadIsolation, LoadLuaIntoState
<1>1. CASE ReloadLuaState(new)
  <2>1. /\ sL' = new /\ open' = (open \ {sL}) \cup {new} /\ hooked' = hooked \ {sL}
        /\ debugL' = debugL
    BY <1>1 DEF ReloadLuaState
  <2>2. \A c \in Con : debugL[c] # NoState => debugL[c] \in open /\ debugL[c] # new
    BY <1>0 DEF Inv, StatesInUse
  <2>3. StatesInUse'
    <3>1. open' = {sL'} \cup {debugL'[c] : c \in {d \in Con : debugL'[d] # NoState}}
      BY <2>1, <2>2, <1>0 DEF Inv, StatesInUse
    <3>2. \A c \in Con : debugL'[c] # sL'
      BY <2>1, <2>2 DEF StateAssumption
    <3>3. hooked' \subseteq open'
      BY <2>1 DEF Inv, StatesInUse
    <3> QED BY <3>1, <3>2, <3>3, <2>1, <1>0 DEF Inv, StatesInUse
  <2> QED BY <1>0, <2>1, <2>3, LoadKeeps DEF Inv, TypeOK
<1>2. ASSUME NEW c \in Con, IsolateLua(c, new) \/ ReloadIsolation(c, new)
      PROVE  Inv'
  <2>1. /\ sL' = sL /\ debugL' = [debugL EXCEPT ![c] = new] /\ hooked' = hooked \cup {sL}
        /\ open' = (open \ ({debugL[c]} \ {NoState})) \cup {new}
    BY <1>2 DEF IsolateLua, ReloadIsolation, LoadLuaIntoState
  <2>2. /\ \A d \in Con : debugL[d] # NoState => debugL[d] \in open /\ debugL[d] # new
        /\ sL \in open /\ sL # new /\ new # NoState
    BY <1>0 DEF Inv, StatesInUse, StateAssumption
  <2>3. \A d \in Con : debugL'[d] = IF d = c THEN new ELSE debugL[d]
    BY <2>1 DEF Inv, TypeOK
  <2>4. StatesInUse'
    <3>1. open' = {sL'} \cup {debugL'[k] : k \in {d \in Con : debugL'[d] # NoState}}
      <4>1. \A s \in open' : s = sL \/ \E d \in Con : debugL'[d] # NoState /\ s = debugL'[d]
        BY <2>1, <2>2, <2>3 DEF Inv, StatesInUse
      <4>2. sL \in open'
        BY <2>1, <2>2 DEF Inv, StatesInUse
      <4>3. \A d \in Con : debugL'[d] # NoState => debugL'[d] \in open'
        BY <2>1, <2>2, <2>3 DEF Inv, StatesInUse
      <4> QED BY <4>1, <4>2, <4>3, <2>1
    <3>2. \A d \in Con : debugL'[d] # sL'
      BY <2>1, <2>2, <2>3 DEF Inv, StatesInUse
    <3>3. \A d \in Con, e \in Con : debugL'[d] = debugL'[e] => d = e \/ debugL'[d] = NoState
      BY <2>2, <2>3 DEF Inv, StatesInUse
    <3>4. hooked' \subseteq open'
      BY <2>1, <2>2 DEF Inv, StatesInUse
    <3> QED BY <3>1, <3>2, <3>3, <3>4, <1>0 DEF StatesInUse
  <2> QED BY <1>0, <2>1, <2>4, LoadKeeps DEF Inv, TypeOK
<1> QED BY <1>1, <1>2
LEMMA DeisolateKeeps ==
    ASSUME StateAssumption, TimeoutAssumption, Inv, NEW c \in Con, DeisolateLua(c)
    PROVE  Inv'
<1>1. /\ running = Idle /\ running' = Idle /\ debugL[c] # NoState
      /\ UNCHANGED <<sL, hooked, luaTimer, luaInTimeout, luaCanTimeout, ran, late>>
      /\ debugL' = [debugL EXCEPT ![c] = NoState] /\ open' = open \ {debugL[c]}
  BY DEF DeisolateLua
<1>2. \A d \in Con : debugL'[d] = IF d = c THEN NoState ELSE debugL[d]
  BY <1>1 DEF Inv, TypeOK
<1>3. open' = {sL} \cup {debugL'[k] : k \in {d \in Con : debugL'[d] # NoState}}
  <2>1. \A s \in open' : s = sL \/ \E d \in Con : debugL'[d] # NoState /\ s = debugL'[d]
    BY <1>1, <1>2 DEF Inv, StatesInUse
  <2>2. sL \in open'
    BY <1>1 DEF Inv, StatesInUse
  <2>3. \A d \in Con : debugL'[d] # NoState => debugL'[d] \in open'
    BY <1>1, <1>2 DEF Inv, StatesInUse
  <2> QED BY <2>1, <2>2, <2>3
<1>4. StatesInUse'
  <2>1. \A d \in Con : debugL'[d] # sL'
    BY <1>1, <1>2 DEF Inv, StatesInUse, StateAssumption, TypeOK
  <2>2. \A d \in Con, e \in Con : debugL'[d] = debugL'[e] => d = e \/ debugL'[d] = NoState
    BY <1>2 DEF Inv, StatesInUse
  <2>3. hooked' \subseteq open'
    BY <1>1 DEF Inv, StatesInUse
  <2> QED BY <1>1, <1>3, <2>1, <2>2, <2>3 DEF StatesInUse
<1>5. luaInTimeout' = late' /\ luaInTimeout' \in BOOLEAN
  BY <1>1 DEF Inv, Clock, TypeOK
<1> QED BY <1>1, <1>4, <1>5, LoadKeeps DEF Inv, TypeOK

LEMMA LoadFailsKeeps ==
    ASSUME StateAssumption, TimeoutAssumption, Inv, LoadFails
    PROVE  Inv'
<1>1. StatesInUse'
  BY DEF LoadFails, Inv, StatesInUse
<1>2. luaInTimeout' = late' /\ luaInTimeout' \in BOOLEAN
  BY DEF LoadFails, Inv, Clock, TypeOK
<1> QED BY <1>1, <1>2, LoadKeeps DEF LoadFails, Inv, TypeOK

THEOREM Invariant == Spec => []Inv
<1>1. StateAssumption /\ TimeoutAssumption
  BY StateAssumption, TimeoutAssumption
<1>2. Init => Inv
  BY <1>1, Initially
<1>3. Inv /\ [Next]_vars => Inv'
  <2>1. ASSUME Inv, UNCHANGED vars PROVE Inv'
    BY <2>1 DEF vars, Inv, TypeOK, StatesInUse, OnlyFarewellsAreExempt, Clock,
                LaterOnesAreShort
  <2>2. ASSUME Inv, Next PROVE Inv'
    <3>1. CASE RunGlobal \/ \E c \in Con : RunLuaEvent(c)
      BY <1>1, <2>2, <3>1, StartKeeps
    <3>2. CASE PreDisconnect
      BY <1>1, <2>2, <3>2, PreDisconnectKeeps
    <3>3. CASE Work
      BY <1>1, <2>2, <3>3, WorkKeeps
    <3>4. CASE Return \/ TimeHook \/ Prepare
      BY <1>1, <2>2, <3>4, EndKeeps
    <3>5. CASE LoadFails
      BY <1>1, <2>2, <3>5, LoadFailsKeeps
    <3>6. CASE \E c \in Con : DeisolateLua(c)
      BY <1>1, <2>2, <3>6, DeisolateKeeps
    <3>7. CASE \E new \in State :
                 ReloadLuaState(new) \/ \E c \in Con : IsolateLua(c, new) \/ ReloadIsolation(c, new)
      BY <1>1, <2>2, <3>7, ReloadKeeps
    <3> QED BY <2>2, <3>1, <3>2, <3>3, <3>4, <3>5, <3>6, <3>7 DEF Next
  <2> QED BY <2>1, <2>2
<1> QED BY <1>2, <1>3, PTL DEF Spec

-----------------------------------------------------------------------------

\* The variables of the host keep their types.
THEOREM TypeCorrect == Spec => []TypeOK
<1> QED BY Invariant, PTL DEF Inv

\* However often scripts are reloaded and connections isolated, no Lua state
\* is lost, shared or used after it was closed.
THEOREM StatesAreInUse == Spec => []StatesInUse
<1> QED BY Invariant, PTL DEF Inv

\* luaTimeHook never ends the farewell of a connection, and is on otherwise.
THEOREM FarewellsAreExempt == Spec => []OnlyFarewellsAreExempt
<1> QED BY Invariant, PTL DEF Inv

\* Once a handler had to be ended, the others of the same iteration are cut
\* short in the states that have the hook.
THEOREM LaterAreShort == Spec => []LaterOnesAreShort
<1> QED BY Invariant, PTL DEF Inv

\* luaTimeHook ends no handler that has not had its time.
THEOREM TheyHaveTheirTime == Spec => []HandlersHaveTheirTime
<1>1. Inv => HandlersHaveTheirTime
  <2> SUFFICES ASSUME Inv, Overdue PROVE ran > Limit
    BY DEF HandlersHaveTheirTime
  <2>1. running # Idle /\ luaCanTimeout /\ luaTimer > Limit
    BY DEF Overdue
  <2>2. running.kind = "event"
    BY <2>1 DEF Inv, OnlyFarewellsAreExempt, TypeOK
  <2> QED BY <2>1, <2>2 DEF Inv, Clock
<1> QED BY <1>1, Invariant, PTL

\* The Lua states and the hook serve every iteration of the event loop, for
\* any connections, limits and reloads.
THEOREM HandlersCorrect == Spec => []HandlersOK
<1> QED BY TypeCorrect, StatesAreInUse, LaterAreShort, TheyHaveTheirTime, FarewellsAreExempt,
           PTL DEF HandlersOK

-----------------------------------------------------------------------------
(* IdleTimeout *)

\* The time is that of the last data, but before any came, when the timer has
\* not been brought forward from where it was at the start.
ActivityIsKnown ==
    \/ lastActivity = heard
    \/ /\ heard = 0 /\ protocol = "unknown" /\ lastActivity \in Garbage
       /\ timer = I!Off \/ timer >= IDENT

\* A connection that asked for a login has done its handshake.
AskedSpoke ==
    /\ ident # "no" => protocol = "hybi" /\ lastActivity = heard
    /\ askedAt \in 0 .. heard
    /\ ident # "yes" => ping = I!Off /\ owed = I!Off

Now == now \in Nat /\ owed \in {I!Off} \cup Nat

IdleInv == I!TypeOK /\ Now /\ ActivityIsKnown /\ AskedSpoke

\* For a user who is logged in: the next ping is not far from the last data,
\* nor the answer that is owed from the ping before.
PingsInTime ==
    ident = "yes" /\ connected =>
        /\ ping <= now + PING /\ now <= ping + MaxLag + 1
        /\ owed = I!Off => ping <= heard + LoginTime + MaxLag + PING
        /\ owed # I!Off =>
             /\ owed <= heard + LoginTime + PING + 2 * MaxLag + 1 + AnswerTime
             /\ well => now <= owed

LEMMA IdleInitially ==
    ASSUME I!TimesAssumption, I!Init
    PROVE  IdleInv /\ PingsInTime /\ I!AnsweringStayOn /\ I!TimersAreInTime
BY DEF I!TimesAssumption, I!Init, I!Off, IdleInv, I!TypeOK, Now, ActivityIsKnown, AskedSpoke,
       PingsInTime, I!AnsweringStayOn, I!TimersAreInTime, I!Period

LEMMA IdleStep ==
    ASSUME I!TimesAssumption, IdleInv, [I!Next]_I!vars PROVE IdleInv'
<1> USE DEF I!TimesAssumption, IdleInv, I!TypeOK, Now, ActivityIsKnown, AskedSpoke, I!Off
<1>1. CASE I!HandshakeCallback
  BY <1>1 DEF I!HandshakeCallback, I!Heard
<1>2. CASE I!ConnectionReadCallback
  BY <1>2 DEF I!ConnectionReadCallback, I!Heard
<1>3. CASE I!ProcessLogin
  BY <1>3 DEF I!ProcessLogin
<1>4. CASE I!PingCallback
  BY <1>4 DEF I!PingCallback, I!Due
<1>5. CASE I!ConnectionTimerCallback
  <2>1. I!Timeout \in Int
    BY DEF I!Timeout
  <2>2. /\ timer # I!Off /\ now > timer
        /\ UNCHANGED <<now, protocol, lastActivity, ident, heard, askedAt, owed, well>>
        /\ \/ connected' = FALSE /\ timer' = I!Off /\ ping' = I!Off
           \/ /\ UNCHANGED <<connected, ping>> /\ now <= I!Timeout
              /\ timer' = I!Off \/ timer' = now + (I!Timeout - now)
    <3>1. CASE now > I!Timeout
      BY <1>5, <3>1 DEF I!ConnectionTimerCallback, I!Due
    <3>2. CASE ~(now > I!Timeout)
      <4>1. now <= I!Timeout
        BY <2>1, <3>2
      <4> QED BY <1>5, <3>2, <4>1 DEF I!ConnectionTimerCallback, I!Again, I!Due
    <3> QED BY <3>1, <3>2
  <2>3. I!TypeOK' /\ Now' /\ AskedSpoke'
    <3>1. /\ timer' \in Int /\ ping' \in {ping, I!Off}
          /\ connected' = connected \/ connected' = FALSE
      BY <2>1, <2>2
    <3>2. ident = "yes" /\ connected' => connected /\ ping' = ping
      BY <2>2
    <3> QED BY <2>2, <3>1, <3>2
  <2>4. ActivityIsKnown'
    <3>1. CASE lastActivity = heard
      BY <2>2, <3>1
    <3>2. CASE protocol = "unknown" /\ (timer = I!Off \/ timer >= IDENT)
      BY <2>2, <3>2 DEF I!Timeout
    <3> QED BY <3>1, <3>2
  <2> QED BY <2>3, <2>4
<1>6. CASE I!Tick
  BY <1>6 DEF I!Tick
<1>7. CASE UNCHANGED I!vars
  BY <1>7 DEF I!vars
<1> QED BY <1>1, <1>2, <1>3, <1>4, <1>5, <1>6, <1>7 DEF I!Next

LEMMA PingsStep ==
    ASSUME I!TimesAssumption, IdleInv, PingsInTime, [I!Next]_I!vars PROVE PingsInTime'
<1> USE DEF I!TimesAssumption, IdleInv, I!TypeOK, Now, AskedSpoke, I!Off, PingsInTime
<1>1. CASE I!HandshakeCallback
  BY <1>1 DEF I!HandshakeCallback, I!Heard
<1>2. CASE I!ConnectionReadCallback
  BY <1>2 DEF I!ConnectionReadCallback, I!Heard
<1>3. CASE I!ProcessLogin
  BY <1>3 DEF I!ProcessLogin
<1>4. CASE I!PingCallback
  BY <1>4 DEF I!PingCallback
<1>5. CASE I!ConnectionTimerCallback
  BY <1>5 DEF I!ConnectionTimerCallback, I!Again
<1>6. CASE I!Tick
  <2>1. /\ now' = now + 1 /\ (ping # I!Off => now <= ping + MaxLag)
        /\ well' => well /\ (owed # I!Off => now < owed)
        /\ UNCHANGED <<ping, ident, connected, heard, owed>>
    <3>1. now' = now + 1 /\ UNCHANGED <<ping, ident, connected, heard, owed>>
      BY <1>6 DEF I!Tick
    <3>2. ping # I!Off => now <= ping + MaxLag
      BY <1>6 DEF I!Tick, I!Late
    <3>3. well' => well /\ (owed # I!Off => now < owed)
      BY ONLY <1>6, Zenon DEF I!Tick
    <3> QED BY <3>1, <3>2, <3>3
  <2>2. CASE ident = "yes" /\ connected
    <3>1. ping \in Int /\ now \in Int /\ heard \in Int /\ owed \in Int /\ ping # I!Off
      BY <2>2
    <3>2. /\ ping' <= now' + PING /\ now' <= ping' + MaxLag + 1
          /\ owed' = I!Off => ping' <= heard' + LoginTime + MaxLag + PING
      BY <2>1, <2>2, <3>1
    <3>3. owed' # I!Off /\ well' => now' <= owed'
      BY <2>1, <3>1
    <3>4. owed' # I!Off =>
            owed' <= heard' + LoginTime + PING + 2 * MaxLag + 1 + AnswerTime
      BY <2>1, <2>2
    <3> QED BY <3>2, <3>3, <3>4
  <2>3. CASE ~(ident = "yes" /\ connected)
    BY <2>1, <2>3
  <2> QED BY <2>2, <2>3
<1>7. CASE UNCHANGED I!vars
  BY <1>7 DEF I!vars
<1> QED BY <1>1, <1>2, <1>3, <1>4, <1>5, <1>6, <1>7 DEF I!Next

\* A user whose client answers was heard of within the period.
LEMMA AnsweringAreHeard ==
    ASSUME I!TimesAssumption, I!SlackAssumption, IdleInv, PingsInTime,
           ident = "yes", connected, well
    PROVE  now <= I!Timeout
<1> USE DEF I!TimesAssumption, I!SlackAssumption, IdleInv, I!TypeOK, Now, I!Off
<1>1. I!Timeout = heard + PERIOD
  BY DEF AskedSpoke, I!Timeout
<1>2. CASE owed = I!Off
  BY <1>1, <1>2 DEF PingsInTime
<1>3. CASE owed # I!Off
  BY <1>1, <1>3 DEF PingsInTime
<1> QED BY <1>2, <1>3

LEMMA AnsweringStep ==
    ASSUME I!TimesAssumption, I!SlackAssumption, IdleInv, PingsInTime, I!AnsweringStayOn,
           [I!Next]_I!vars
    PROVE  I!AnsweringStayOn'
<1> USE DEF I!AnsweringStayOn, IdleInv, I!TypeOK
<1>1. CASE I!ConnectionTimerCallback
  <2>1. UNCHANGED <<ident, well>> /\ connected /\ (~connected' => now > I!Timeout)
    BY <1>1 DEF I!ConnectionTimerCallback
  <2>2. I!Timeout \in Int /\ now \in Int
    BY DEF I!Timeout, I!TimesAssumption, Now
  <2> QED BY <2>1, <2>2, AnsweringAreHeard
<1>2. CASE I!HandshakeCallback \/ I!ConnectionReadCallback \/ I!ProcessLogin
               \/ I!PingCallback \/ I!Tick
  BY <1>2 DEF I!HandshakeCallback, I!ConnectionReadCallback, I!ProcessLogin, I!Heard,
              I!PingCallback, I!Tick
<1>3. CASE UNCHANGED I!vars
  BY <1>3 DEF I!vars
<1> QED BY <1>1, <1>2, <1>3 DEF I!Next

LEMMA TimerStep ==
    ASSUME I!TimesAssumption, I!PastAssumption, IdleInv, I!TimersAreInTime, [I!Next]_I!vars
    PROVE  I!TimersAreInTime'
<1> USE DEF I!TimesAssumption, IdleInv, I!TypeOK, Now, I!Off, I!TimersAreInTime, I!Period
<1>1. CASE I!ConnectionTimerCallback
  <2>1. lastActivity \in Int /\ lastActivity <= heard
    BY DEF ActivityIsKnown, I!PastAssumption
  <2> QED
    BY <1>1, <2>1 DEF I!ConnectionTimerCallback, I!Again, I!Timeout
<1>2. CASE I!HandshakeCallback
  BY <1>2 DEF I!HandshakeCallback, I!Heard
<1>3. CASE I!ConnectionReadCallback \/ I!ProcessLogin \/ I!PingCallback \/ I!Tick
  <2>1. /\ UNCHANGED <<protocol, timer, connected>>
        /\ heard' = heard \/ heard' = now
    BY <1>3 DEF I!ConnectionReadCallback, I!ProcessLogin, I!Heard, I!PingCallback, I!Tick
  <2> QED BY <2>1
<1>4. CASE UNCHANGED I!vars
  BY <1>4 DEF I!vars
<1> QED BY <1>1, <1>2, <1>3, <1>4 DEF I!Next

\* For any periods in which a late login, an interval between pings and a late
\* answer fit: a timer is due by the period after the last data, however often
\* connectionTimerCallback put it off, and a user whose client answers every
\* ping is not taken for silent (server.cpp, pingCallback).
THEOREM TimersCorrect ==
    ASSUME I!TimesAssumption, I!SlackAssumption, I!PastAssumption
    PROVE  I!Spec => []TimersOK
<1> DEFINE Timed == IdleInv /\ PingsInTime /\ I!AnsweringStayOn /\ I!TimersAreInTime
<1>1. I!Init => Timed
  BY IdleInitially
<1>2. Timed /\ [I!Next]_I!vars => Timed'
  BY IdleStep, PingsStep, AnsweringStep, TimerStep
<1>3. Timed => I!TimersOK
  BY DEF IdleInv, I!TimersOK
<1> QED BY <1>1, <1>2, <1>3, PTL DEF I!Spec, TimersOK

\* Whatever was in memory where lastActivity is: a connection is closed for
\* silence only if it was not heard of for all of its period.
THEOREM NobodyCutShort == ASSUME I!TimesAssumption PROVE I!Spec => NobodyIsCutShort
<1> DEFINE Silent == connected /\ ~connected' => now > heard + I!Period
<1>1. I!Init => IdleInv
  BY IdleInitially
<1>2. IdleInv /\ [I!Next]_I!vars => IdleInv'
  BY IdleStep
<1>3. IdleInv /\ [I!Next]_I!vars => [Silent]_I!vars
  <2> SUFFICES ASSUME IdleInv, I!Next, connected, ~connected'
               PROVE  now > heard + I!Period
    OBVIOUS
  <2>1. I!ConnectionTimerCallback
    BY DEF I!Next, I!HandshakeCallback, I!ConnectionReadCallback, I!ProcessLogin,
           I!Heard, I!PingCallback, I!Tick
  <2>2. now > I!Timeout /\ timer # I!Off /\ now > timer
    BY <2>1 DEF I!ConnectionTimerCallback, I!Due
  <2> QED
    BY <2>2 DEF I!TimesAssumption, IdleInv, I!TypeOK, Now, ActivityIsKnown, I!Timeout, I!Period
<1> QED BY <1>1, <1>2, <1>3, PTL DEF I!Spec, I!NobodyIsCutShort, NobodyIsCutShort

-----------------------------------------------------------------------------
(* Presence *)

\* A connection that was not given one has no crown, and a search goes by the
\* kinks that came with the login.
CrownsAreGiven == \A n \in Char : status[n] = P!Crown => n \in rewarded
KinksAreKnown == \A n \in Char : session[n] = "on" => kinkList[n] = KinksOf[n]

PresenceInv == P!PresenceOK /\ CrownsAreGiven /\ KinksAreKnown

LEMMA PresenceInitially == ASSUME P!PresenceAssumption, P!Init PROVE PresenceInv
<1> USE DEF P!Init, P!PresenceAssumption, P!Status
<1>1. P!TypeOK
  BY DEF P!TypeOK, P!Nobody
<1>2. P!ListsAreRight /\ P!CrownsAreEarned /\ KinksAreKnown
  BY DEF P!ListsAreRight, P!CrownsAreEarned, KinksAreKnown, P!Informed
<1>3. P!SearchAgreesWithList /\ CrownsAreGiven
  BY DEF P!SearchAgreesWithList, CrownsAreGiven, P!Crown
<1> QED BY <1>1, <1>2, <1>3 DEF PresenceInv, P!PresenceOK

LEMMA NotFound == ASSUME found' = P!NoAnswer PROVE P!SearchAgreesWithList'
BY DEF P!SearchAgreesWithList

\* Crowns in a list are crowns of the server, if the list is right.
LEMMA CrownsFollow ==
    ASSUME P!PresenceAssumption, P!ListsAreRight', CrownsAreGiven' PROVE P!CrownsAreEarned'
BY DEF P!ListsAreRight, CrownsAreGiven, P!CrownsAreEarned

\* What a message to all leaves behind, in the lists of whom it reached.
LEMMA BroadcastFacts ==
    ASSUME P!PresenceAssumption, PresenceInv, NEW c \in Char,
           NEW new \in P!Status \cup {P!Absent},
           NEW v \in [Char -> P!Status \cup {P!Absent}],
           P!Broadcast(c, v, new)
    PROVE  /\ view' \in [Char -> [Char -> P!Status \cup {P!Absent}]]
           /\ missed' \in [Char -> BOOLEAN]
           /\ view'[c] = v /\ ~missed'[c]
           /\ \A o \in Char \ {c} :
                /\ \A n \in Char \ {c} : view'[o][n] = view[o][n]
                /\ P!Open(o) /\ ~missed'[o] =>
                     /\ ~missed[o] /\ view'[o][c] = new
<1> DEFINE V == [Char -> P!Status \cup {P!Absent}]
<1>1. /\ view \in [Char -> V] /\ missed \in [Char -> BOOLEAN]
      /\ full \in [Char -> BOOLEAN]
  BY DEF PresenceInv, P!PresenceOK, P!TypeOK
<1>2. \A o \in Char : /\ [view[o] EXCEPT ![c] = new] \in V
                      /\ [view[o] EXCEPT ![c] = new][c] = new
                      /\ \A n \in Char \ {c} : [view[o] EXCEPT ![c] = new][n] = view[o][n]
  BY <1>1
<1> HIDE DEF V
<1>3. \A o \in Char : view'[o] = IF o = c THEN v
                                 ELSE IF P!Open(o) /\ ~full[o]
                                      THEN [view[o] EXCEPT ![c] = new] ELSE view[o]
  BY DEF P!Broadcast
<1>4. v \in V
  BY DEF V
<1>5. view' \in [Char -> V]
  BY <1>1, <1>2, <1>4 DEF P!Broadcast
<1>6. /\ missed' \in [Char -> BOOLEAN]
      /\ ~missed'[c]
      /\ \A o \in Char \ {c} : ~missed'[o] => ~missed[o] /\ ~(P!Open(o) /\ full[o])
  BY DEF P!Broadcast
<1>7. view'[c] = v
  BY <1>3
<1>8. ASSUME NEW o \in Char \ {c}
      PROVE  /\ \A n \in Char \ {c} : view'[o][n] = view[o][n]
             /\ P!Open(o) /\ ~missed'[o] => ~missed[o] /\ view'[o][c] = new
  <2>1. view'[o] = view[o] \/ view'[o] = [view[o] EXCEPT ![c] = new]
    BY <1>3
  <2>2. P!Open(o) /\ ~full[o] => view'[o] = [view[o] EXCEPT ![c] = new]
    BY <1>3
  <2>3. \A n \in Char \ {c} : view'[o][n] = view[o][n]
    <3>1. CASE view'[o] = view[o]
      BY <3>1
    <3>2. CASE view'[o] = [view[o] EXCEPT ![c] = new]
      <4>1. \A n \in Char \ {c} : [view[o] EXCEPT ![c] = new][n] = view[o][n]
        BY <1>2
      <4> QED BY <3>2, <4>1
    <3> QED BY <2>1, <3>1, <3>2
  <2>4. ASSUME P!Open(o), ~missed'[o] PROVE ~missed[o] /\ view'[o][c] = new
    <3>1. ~missed[o] /\ ~full[o]
      BY <1>6, <1>8, <2>4
    <3> QED BY <1>2, <1>8, <2>2, <2>4, <3>1
  <2> QED BY <2>3, <2>4
<1> QED BY <1>5, <1>6, <1>7, <1>8 DEF V

\* A login, whether it is accepted or refused, and the end of a connection.
LEMMA ArrivalKeeps ==
    ASSUME P!PresenceAssumption, PresenceInv, NEW c \in Char, P!Login(c)
    PROVE  PresenceInv'
<1> USE DEF P!PresenceAssumption
<1>1. /\ session' = [session EXCEPT ![c] = "on"]
      /\ status' = [status EXCEPT ![c] = "online"]
      /\ kinkList' = [kinkList EXCEPT ![c] = KinksOf[c]]
      /\ full' = [full EXCEPT ![c] = FALSE]
      /\ rewarded' = rewarded \ {c} /\ found' = P!NoAnswer
  BY DEF P!Login, P!NewConnection
<1>2. P!TypeOK
  BY DEF PresenceInv, P!PresenceOK
<1> DEFINE v == [P!UserList EXCEPT ![c] = "online"]
<1>3. /\ v \in [Char -> P!Status \cup {P!Absent}]
      /\ \A n \in Char \ {c} : session[n] = "on" => v[n] = status[n]
      /\ v[c] = "online"
  BY <1>2 DEF P!UserList, P!TypeOK, P!Status, P!Mapped
<1>4. P!Broadcast(c, v, "online") /\ "online" \in P!Status
  BY DEF P!Login, P!Status
<1> HIDE DEF v
<1>5. P!TypeOK'
  BY <1>1, <1>2, <1>3, <1>4, BroadcastFacts DEF P!TypeOK, P!Status
<1>6. /\ \A n \in Char \ {c} : session'[n] = session[n] /\ status'[n] = status[n]
                               /\ kinkList'[n] = kinkList[n]
      /\ session'[c] = "on" /\ status'[c] = "online" /\ kinkList'[c] = KinksOf[c]
  BY <1>1, <1>2 DEF P!TypeOK
<1>7. ASSUME NEW o \in Char, NEW n \in Char, P!Informed(o)', session'[n] = "on"
      PROVE  view'[o][n] = status'[n]
  <2>1. CASE o = c
    BY <1>3, <1>4, <1>6, <1>7, <2>1, BroadcastFacts
  <2>2. CASE o # c /\ n = c
    BY <1>3, <1>4, <1>6, <1>7, <2>2, BroadcastFacts DEF P!Informed, P!Open
  <2>3. CASE o # c /\ n # c
    BY <1>3, <1>4, <1>6, <1>7, <2>3, BroadcastFacts
    DEF P!Informed, P!Open, PresenceInv, P!PresenceOK, P!ListsAreRight
  <2> QED BY <2>1, <2>2, <2>3
<1>8. CrownsAreGiven' /\ KinksAreKnown'
  BY <1>1, <1>6 DEF PresenceInv, CrownsAreGiven, KinksAreKnown, P!Crown
<1> QED
  BY <1>1, <1>5, <1>7, <1>8, NotFound, CrownsFollow
  DEF PresenceInv, P!PresenceOK, P!ListsAreRight

\* A connection of c ends, or never counted: c is not on.
LEMMA DepartureKeeps ==
    ASSUME P!PresenceAssumption, PresenceInv, NEW c \in Char,
           P!LoginRefused(c) \/ P!LoginBarred(c) \/ P!PrepareShutdown(c)
               \/ P!RemoveConnection(c)
    PROVE  PresenceInv'
<1> USE DEF P!PresenceAssumption
<1>1. P!TypeOK
  BY DEF PresenceInv, P!PresenceOK
<1>2. /\ session' \in [Char -> {"off", "on", "closing", "closed"}]
      /\ session'[c] # "on" /\ \A n \in Char \ {c} : session'[n] = session[n]
  BY <1>1 DEF P!TypeOK, P!LoginRefused, P!LoginBarred, P!PrepareShutdown,
              P!RemoveConnection
<1>3. /\ \/ UNCHANGED <<status, kinkList, rewarded>>
         \/ /\ status' = [status EXCEPT ![c] = "online"]
            /\ kinkList' = [kinkList EXCEPT ![c] = {}]
            /\ rewarded' = rewarded \ {c}
      /\ full' = [full EXCEPT ![c] = FALSE] /\ found' = P!NoAnswer
  BY DEF P!NewConnection, P!LoginRefused, P!LoginBarred, P!PrepareShutdown,
         P!RemoveConnection
<1>4. /\ status' \in [Char -> P!Status] /\ kinkList' \in [Char -> SUBSET Kink]
      /\ \A n \in Char \ {c} : status'[n] = status[n] /\ kinkList'[n] = kinkList[n]
      /\ status'[c] = P!Crown => status[c] = P!Crown /\ rewarded' = rewarded
  BY <1>1, <1>3 DEF P!TypeOK, P!Status, P!Crown
<1>5. P!Nobody \in [Char -> P!Status \cup {P!Absent}]
  BY DEF P!Nobody
<1>6. /\ view' \in [Char -> [Char -> P!Status \cup {P!Absent}]]
      /\ missed' \in [Char -> BOOLEAN]
      /\ \A o \in Char \ {c} : P!Open(o) /\ ~missed'[o] =>
           ~missed[o] /\ \A n \in Char \ {c} : view'[o][n] = view[o][n]
  <2>1. CASE P!Broadcast(c, P!Nobody, P!Absent)
    BY <1>5, <2>1, BroadcastFacts
  <2>2. CASE /\ view' = [view EXCEPT ![c] = P!Nobody]
             /\ missed' = [missed EXCEPT ![c] = FALSE]
    BY <1>1, <1>5, <2>2 DEF P!TypeOK
  <2>3. CASE UNCHANGED <<view, missed>>
    BY <1>1, <2>3 DEF P!TypeOK
  <2> QED
    BY <2>1, <2>2, <2>3 DEF P!LoginRefused, P!LoginBarred, P!PrepareShutdown,
                            P!RemoveConnection
<1>7. P!TypeOK'
  BY <1>1, <1>2, <1>3, <1>4, <1>6 DEF P!TypeOK
<1>8. P!ListsAreRight'
  BY <1>2, <1>4, <1>6
  DEF P!ListsAreRight, P!Informed, P!Open, PresenceInv, P!PresenceOK
<1>9. CrownsAreGiven' /\ KinksAreKnown'
  BY <1>2, <1>3, <1>4 DEF PresenceInv, CrownsAreGiven, KinksAreKnown
<1> QED
  BY <1>3, <1>7, <1>8, <1>9, NotFound, CrownsFollow DEF PresenceInv, P!PresenceOK

\* A connection that only stops reading, or whose queue fills or empties.
LEMMA QuietKeeps ==
    ASSUME P!PresenceAssumption, PresenceInv, NEW c \in Char,
           P!Close(c) \/ P!QueueFills(c)
    PROVE  PresenceInv'
<1>1. /\ UNCHANGED <<status, kinkList, view, missed, rewarded>> /\ found' = P!NoAnswer
      /\ \A n \in Char : session'[n] = "on" => session[n] = "on"
      /\ P!TypeOK'
  BY DEF P!Close, P!QueueFills, PresenceInv, P!PresenceOK, P!TypeOK
<1>2. P!ListsAreRight'
  BY <1>1 DEF P!ListsAreRight, P!Informed, PresenceInv, P!PresenceOK
<1>3. CrownsAreGiven' /\ KinksAreKnown'
  BY <1>1 DEF PresenceInv, CrownsAreGiven, KinksAreKnown
<1> QED
  BY <1>1, <1>2, <1>3, NotFound, CrownsFollow DEF PresenceInv, P!PresenceOK

\* A status is told to all who show its owner, which are all it is to be told.
LEMMA StatusKeeps ==
    ASSUME P!PresenceAssumption, PresenceInv, NEW n \in Char, NEW new \in P!Status,
           P!SetStatus(n, new), UNCHANGED <<session, kinkList, full>>,
           found' = P!NoAnswer,
           \/ new # P!Crown /\ UNCHANGED rewarded
           \/ new = P!Crown /\ rewarded' = rewarded \cup {n}
    PROVE  PresenceInv'
<1> USE DEF P!PresenceAssumption
<1>1. P!TypeOK /\ P!ListsAreRight
  BY DEF PresenceInv, P!PresenceOK
<1>2. /\ status' \in [Char -> P!Status] /\ status'[n] = new
      /\ \A m \in Char \ {n} : status'[m] = status[m]
  BY <1>1 DEF P!SetStatus, P!TypeOK
<1> DEFINE V == [Char -> P!Status \cup {P!Absent}]
<1>3. view \in [Char -> V]
  BY <1>1 DEF P!TypeOK
<1>4. \A o \in Char : /\ [view[o] EXCEPT ![n] = new] \in V
                      /\ [view[o] EXCEPT ![n] = new][n] = new
                      /\ \A m \in Char \ {n} : [view[o] EXCEPT ![n] = new][m] = view[o][m]
  BY <1>3
<1> HIDE DEF V
<1>5. view' \in [Char -> V]
  BY <1>3, <1>4 DEF P!SetStatus
<1>6. \A o \in Char : view'[o] = IF P!Open(o) /\ ~full[o] /\ view[o][n] # P!Absent
                                 THEN [view[o] EXCEPT ![n] = new] ELSE view[o]
  BY DEF P!SetStatus
<1>7. /\ missed' \in [Char -> BOOLEAN]
      /\ \A o \in Char : missed'[o] = (missed[o] \/ (P!Open(o) /\ full[o]))
  BY <1>1 DEF P!SetStatus, P!TypeOK
<1>8. P!TypeOK'
  BY <1>1, <1>2, <1>5, <1>7 DEF P!TypeOK, V
<1>9. ASSUME NEW o \in Char, NEW m \in Char, P!Informed(o)', session'[m] = "on"
      PROVE  view'[o][m] = status'[m]
  <2>1. P!Informed(o) /\ P!Open(o) /\ ~full[o] /\ session[m] = "on"
    BY <1>7, <1>9 DEF P!Informed, P!Open
  <2>2. view[o][m] = status[m] /\ status[m] # P!Absent
    BY <1>1, <2>1 DEF P!ListsAreRight, P!TypeOK, P!Status, P!Absent, P!Crown
  <2>3. view'[o] = IF view[o][n] # P!Absent THEN [view[o] EXCEPT ![n] = new] ELSE view[o]
    BY <1>6, <2>1
  <2>4. CASE m = n
    BY <1>2, <1>4, <2>2, <2>3, <2>4
  <2>5. CASE m # n
    BY <1>2, <1>4, <2>2, <2>3, <2>5
  <2> QED BY <2>4, <2>5
<1>10. CrownsAreGiven' /\ KinksAreKnown'
  BY <1>2 DEF PresenceInv, CrownsAreGiven, KinksAreKnown
<1> QED
  BY <1>8, <1>9, <1>10, NotFound, CrownsFollow
  DEF PresenceInv, P!PresenceOK, P!ListsAreRight

\* What a search finds is what the searcher's list shows.
LEMMA SearchKeeps ==
    ASSUME P!PresenceAssumption, PresenceInv, NEW c \in Char, NEW query \in P!Query,
           P!SearchCommand(c, query)
    PROVE  PresenceInv'
<1>1. UNCHANGED <<session, status, kinkList, full, view, missed, rewarded>>
  BY DEF P!SearchCommand
<1>2. /\ P!TypeOK' /\ P!ListsAreRight' /\ P!CrownsAreEarned'
      /\ CrownsAreGiven' /\ KinksAreKnown'
  BY <1>1
  DEF PresenceInv, P!PresenceOK, P!TypeOK, P!ListsAreRight, P!CrownsAreEarned, P!Informed,
      CrownsAreGiven, KinksAreKnown
<1>3. P!SearchAgreesWithList'
  <2> SUFFICES ASSUME found' # P!NoAnswer, ~missed'[found'.by],
                      NEW n \in Char, session'[n] = "on", n # found'.by
               PROVE  n \in found'.chars <=>
                        /\ view'[found'.by][n] \in {"online", "looking"}
                        /\ KinksOf[n] # {} /\ found'.query.kinks \subseteq KinksOf[n]
                        /\ found'.query.tags # P!AnyTag => TagOf[n] \in found'.query.tags
    BY DEF P!SearchAgreesWithList
  <2>1. found' = [by |-> c, query |-> query, chars |-> P!Results(c, query)]
    BY DEF P!SearchCommand
  <2>2. found'.by = c /\ found'.query = query /\ found'.chars = P!Results(c, query)
    BY <2>1
  <2>3. session[c] = "on" /\ ~missed[c] /\ session[n] = "on" /\ n # c
    BY <1>1, <2>2 DEF P!SearchCommand
  <2>4. view[c][n] = status[n] /\ kinkList[n] = KinksOf[n]
    BY <2>3 DEF PresenceInv, P!PresenceOK, P!ListsAreRight, P!Informed, KinksAreKnown
  <2>5. n \in P!ToSearch(c) <=> KinksOf[n] # {} /\ status[n] \in {"online", "looking"}
    BY <2>3, <2>4 DEF P!ToSearch, P!Mapped
  <2>6. n \in P!Results(c, query) <=>
          /\ n \in P!ToSearch(c)
          /\ query.tags # P!AnyTag => TagOf[n] \in query.tags
          /\ query.kinks \subseteq KinksOf[n]
    BY <2>4 DEF P!Results, P!SearchFilterList, P!SearchFilterListF
  <2> QED BY <1>1, <2>2, <2>4, <2>5, <2>6
<1> QED BY <1>2, <1>3 DEF PresenceInv, P!PresenceOK

LEMMA PresenceFrame == ASSUME PresenceInv, UNCHANGED P!vars PROVE PresenceInv'
BY DEF P!vars, PresenceInv, P!PresenceOK, P!TypeOK, P!ListsAreRight, P!CrownsAreEarned,
       P!SearchAgreesWithList, P!Informed, CrownsAreGiven, KinksAreKnown

LEMMA PresenceStep ==
    ASSUME P!PresenceAssumption, PresenceInv, [P!Next]_P!vars PROVE PresenceInv'
<1>1. ASSUME NEW c \in Char, NEW asked \in P!Asked, P!STA(c, asked)
      PROVE  PresenceInv'
  BY <1>1, StatusKeeps DEF P!STA, P!NewStatus, P!Status, P!PresenceAssumption
<1>2. ASSUME NEW c \in Char, NEW target \in Char, P!RWD(c, target)
      PROVE  PresenceInv'
  BY <1>2, StatusKeeps DEF P!RWD, P!Status
<1> QED
  BY <1>1, <1>2, ArrivalKeeps, DepartureKeeps, QuietKeeps, SearchKeeps, PresenceFrame
  DEF P!Next

\* For any characters, kinks and statuses: a client that missed no message
\* shows everyone who is on under the status the server has, a crown only of
\* whom an administrator gave one, and finds in a search whom it shows as free
\* (ident_callback, STA, RWD and FKS; server_state.cpp).
THEOREM PresenceCorrect == ASSUME P!PresenceAssumption PROVE P!Spec => []PresenceOK
<1>1. P!Init => PresenceInv
  BY PresenceInitially
<1>2. PresenceInv /\ [P!Next]_P!vars => PresenceInv'
  BY PresenceStep
<1>3. PresenceInv => P!PresenceOK
  BY DEF PresenceInv
<1> QED BY <1>1, <1>2, <1>3, PTL DEF P!Spec, PresenceOK

\* Whoever's connection ends is not shown by any client that is told, whether
\* the connection was closed or a login took it over and was refused.
THEOREM TheDepartedDisappear ==
    ASSUME P!PresenceAssumption PROVE P!Spec => DepartedDisappear
<1> DEFINE Gone == \A o, n \in Char :
        session[o] = "on" /\ P!Informed(o)' /\ P!Open(n) /\ session'[n] \in {"closed", "off"}
            => view'[o][n] = P!Absent
<1>1. PresenceInv /\ [P!Next]_P!vars => [Gone]_P!vars
  <2> SUFFICES ASSUME PresenceInv, P!Next,
                      NEW o \in Char, NEW n \in Char, session[o] = "on", P!Informed(o)',
                      P!Open(n), session'[n] \in {"closed", "off"}
               PROVE  view'[o][n] = P!Absent
    OBVIOUS
  <2>1. session \in [Char -> {"off", "on", "closing", "closed"}]
    BY DEF PresenceInv, P!PresenceOK, P!TypeOK
  <2>2. P!LoginRefused(n) \/ P!PrepareShutdown(n)
    BY <2>1 DEF P!Next, P!Open, P!Login, P!LoginRefused, P!LoginBarred, P!Close,
                P!PrepareShutdown, P!RemoveConnection, P!STA, P!RWD, P!SearchCommand,
                P!QueueFills
  <2>3. o # n
    BY <2>1, <2>2 DEF P!LoginRefused, P!PrepareShutdown, P!Informed
  <2>4. P!Broadcast(n, P!Nobody, P!Absent)
    BY <2>2 DEF P!LoginRefused, P!PrepareShutdown
  <2>5. P!Nobody \in [Char -> P!Status \cup {P!Absent}]
    BY DEF P!Nobody
  <2> QED BY <2>3, <2>4, <2>5, BroadcastFacts DEF P!Informed, P!Open
<1>2. P!Init => PresenceInv
  BY PresenceInitially
<1>3. PresenceInv /\ [P!Next]_P!vars => PresenceInv'
  BY PresenceStep
<1> QED BY <1>1, <1>2, <1>3, PTL DEF P!Spec, P!DepartedDisappear, DepartedDisappear
=============================================================================
