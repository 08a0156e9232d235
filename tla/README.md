# A specification of fserv

TLA+ models of the F-List chat server (`src/`), the TLC runs that check them
and machine-checked proofs about them. `PROJECT.json` maps every definition to
the lines of the source it stands for, and lists the runs, the mutated
definitions that show each property can fail, the hazards and the theorems.

    tlc -workers 2 -config Channels.cfg MCChannels.tla            # a run
    tlapm ChannelsProofs.tla                                      # the proofs

## The system

One process. Its main thread runs a libev loop (`Server::run`): it accepts
clients, parses websocket frames, runs a Lua handler for every command
(`script/main.lua`) and writes replies. Helper threads do what blocks: the login
service asks the web site whether a ticket is right, through an HTTP client
thread; one thread talks to Redis; one writes chat logs. They exchange requests
and replies with the main thread through locked queues and libev wake-ups.

| Component | State | Operations | Hard behaviour | Correct when | Module |
|---|---|---|---|---|---|
| Event loop and connections (`server.cpp`, `connection.cpp`) | per connection: flags `closed`, `delayClose`, `identified`, `authStarted`; name, address, four libev events | accept, handshake, read, write, ping, timer, close | reference counted objects, events that outlive or precede them, several commands per callback | nothing freed is used, an open connection is owned, a closing one is cleaned up | `Connections`, `IdleTimeout` |
| Input (`server.cpp`, `websocket.cpp`) | read buffer | handshake, receive, close, ping | incomplete frames, limits, commands left in the buffer | the same frames however the bytes arrive; nothing waits without a reason | `ReadPath`, `Framing` |
| Write queue (`connection.cpp`, `messagebuffer.cpp`) | queue of buffers, position | send, sendRaw, write | partial writes, limit | the client gets the messages in order | `WriteQueue` |
| Tables of connections (`server_state.cpp`) | `connectionMap`, `connectionCountMap`, `unidentifiedList`, `userCount` | add, remove, look up by name | late clean-up by name, eviction by a second login | one connection per character; counts are exact | `Connections` |
| Login (`login_evhttp.cpp`, `native_command.cpp`, `ident_callback`) | request and reply queues, `authStarted` | IDN, HTTP request, reply, wake-up | replies out of order, late, lost; handler aborted half way | the name goes to one connection; each request is answered once or lost | `Connections`, `LoginService` |
| HTTP client thread (`http_client.cpp`) | queue, curl handles | add, finish, stop | wake-ups before the loop exists or after | no wake-up is lost; it stops | `LoginService` |
| Presence and search (`lua_chat.cpp`, `native_command.cpp`) | status per connection; what clients show | LIS, NLN, FLN, STA, RWD, FKS | lists and broadcasts made at different moments | what a client shows is who is online | `Presence` |
| Channels (`channel.cpp`, `lua_channel.cpp`, `main.lua`) | participants and their count, owner, moderators, bans, invitations, type; each connection's list of channels | JCH LCH CCR CRC KIC RST CBU CTU CKU CUB CIU CSO COA COR, login, disconnect, idle tasks | two copies of membership, destruction by the last one to leave, roles changing under members | copies agree, bans hold, abandoned rooms go | `Channels` |
| Room lists (`lua_channel.cpp`) | two cached messages | CHA, ORS | caches that live for half a minute | nothing gone is listed for long | `RoomLists` |
| Moderation and roles (`main.lua`, `lua_connection.cpp`) | account bans and timeouts, operator lists, role sets | AOP DOP SCP SCD ACB UNB TMO KIK | list by name, role of live connections, accounts with several characters | who is barred is out and stays out; roles follow lists | `Moderation` |
| Messages and throttles | time of the last message of each kind | MSG LRP PRI RLL STA RMO HLB | clocks kept by connection and by channel; answers older than a hellban | one message in an interval, no word of the silenced | `Messages` |
| Ignore lists (`lua_connection.cpp`) | a set per connection, a copy in Redis | IGN, propagation to the account's connections | merges by insertion only; answers older than a change | nobody is forgotten; no client is ahead of its list | `IgnoreLists` |
| Staff calls (`server_state.cpp`) | calls, targets | SFC, PCR, login | targets that disconnect, calls taken up twice | moderators are told, calls confirmed once | `StaffCalls` |
| Persistence (`server_state.cpp`, `channel.cpp`) | operators, bans, channels in files | save, load, RLD | truncated and rewritten in place | what was saved comes back; faults are repaired | `Persistence`, `SavedChannels` |
| Redis thread (`redis.cpp`) | queue, connection | add, process, reconnect, stop | dropped requests, half a list | Redis follows the map | `RedisQueue` |
| Log thread (`logger_thread.cpp`) | bounded queue, readers | add, write, stop | stop deletes what the thread uses | entries arrive in order; a quiet stop is safe; a stop is seen | `ChatLog` |
| Lua host (`server.cpp`) | Lua states, time hook | run, reload, isolate | a handler ended at any instruction, loads that fail | states in use are open; handlers have their time | `LuaHost`, `JsonLua` |
| RTB socket | accepted socket | KIK CDL HLB RTB | comes from another process | as the commands | with those of the commands |
| Start and stop (`fserv.cpp`, `fthread.hpp`) | threads | start, stop | stopping order | all threads end | each thread's module |

Interaction. The read callback calls a native command or a Lua handler, which
calls back into `ServerState`, `Channel` and `ConnectionInstance` through
`lua_connection.cpp`, `lua_channel.cpp` and `lua_chat.cpp`. Everything in that
chain is in the main thread, so callbacks do not interleave: what interleaves is
the order of callbacks, the steps of the other threads, and where a handler is
aborted (a Lua error or the time hook: what it did before stays done). So the
modules of the main thread have one action for each handler, and those of the
other threads (`LoginService`, `ChatLog`, `RedisQueue`) one for each access to
something shared.

## Modules

Modules that share something meet at a border that both name. `Connections`
knows of a login that it was asked and answered; `LoginService` is what is
between. `Connections` keeps Redis exact (`redisOnline`); `RedisQueue` is the
queue on the way there. `Channels`, `Moderation`, `Messages`, `StaffCalls` and
`Presence` say that a message is told when it is queued; `WriteQueue` is what
becomes of it. `Channels` has who may do what in a channel; `SavedChannels` the
same operations below those tests, with what a restart makes of them.

### Connections

Clients from accept to clean-up. `con` holds the fields of every
`ConnectionInstance` (an address of memory: it is reused once nothing refers to
it), the other variables are the tables of `ServerState`, the stage of each
connection's login request, and two views kept elsewhere of who is online:
`announced`, what NLN and FLN told the clients, and `redisOnline`.

A timer is the purpose it was armed for: `idle`, `delay` (after
`setDelayClose`), `reap` (after `prepareShutdownConnection`), `stopped` or
`deleted`. Time is left out: an armed timer may fire whenever it likes, so any
order of timers and other callbacks occurs. One libev callback is one action,
but `connectionReadCallback`, which runs several commands, is a sequence of
steps during which `reader` names the connection and every other callback waits
(`InLoop`): that is how a command that closes its own connection, or one that
was marked for closing, is followed by further commands. The login thread's
steps do interleave with it.

`ident_callback` is split by how far it gets, not in time: each
`Login...` action is one call that ended at one place (refused at once,
after the eviction, after `u.setIdent`, aborted within the eviction, aborted
after the announcement, or accepted). `Faults` names the ways it may be
aborted: `lua_timeout`, the time hook, and `staffroom_rst`, an error in
`c.removeInvite` once the staff room is not private. `returned` tells whether
the handler returned or was aborted, as `processLogin` starts the ping timer in
the first case only. Which of two lists an operator or super-cop is in is
abstracted to `staff`, a choice.

`NameRegistry` is what all of this promises the users: a name has one owner, who
has no other name and loses it by leaving after being closed, or to a login, which
has the owner told to close; and no address has more names than its limit. It knows
no login thread, no timers and no tables but `owner`; a connection is `absent`,
`open`, `closing` or `closed` (`Standing`).

### Channels

Chat channels: `chan` the channel objects (type `absent`: no such name in
`channelMap`), `channelList` what each connection believes it has joined,
`presence` whether the user's connection is open, closed but still in the map,
or gone, `cop` the users whose connection has the role, `channelOpList`. The
whole handler is one action, including what it calls: `LCH` destroys the
channel if it was abandoned, `COR` in a public channel also takes back the
invitation to the staff room and rebuilds the list of operators, `Login` joins
staff to the staff room. Refused commands change nothing and are no steps.

Users are characters; their roles are constants. `LowerCase` has the users whose
names are spelt in lower case: two functions look up a connection by the name as
spelt in a map with lower-case keys. A ban is `none`, `timed` or `permanent`,
and `TimeoutEnds` is the time running out. Descriptions, modes, titles,
throttles, dice and the saving of channels are left out (`SavedChannels` and
`Messages` have them); so is what the messages say. Things the code does that a
reader may take for slips of the model, all of them translated: a login joins
staff to the staff room without a look at its bans; a user who is not online is
banned by name whoever they are; `CBU` withdraws the invitation before it finds
that the user is banned already; `RST` on an open room that was large and is
empty makes a private room nobody is in.

### The bytes: WriteQueue, ByteStream, ReadPath, Framing

`WriteQueue` is the output of a connection. A message is the interval of the
stream it stands for, and `received` how far the client has got, so that order,
loss and repetition of bytes are statements about numbers. `send` and `sendRaw`
queue; each `send()` of `connectionWriteCallback` is a step, which takes all,
some or nothing, or fails. `ByteStream` is the abstract promise: a stream of
which the client receives ever more until the connection is closed.
`ImplementsByteStream` is that refinement, model-checked and proved.

`ReadPath` is the input: `handshakeCallback` and `connectionReadCallback` with
the loop over the frames in the buffer. The buffer is a number of bytes and the
frames under way are kinds and lengths, with the limits scaled down.
`Framing` has the bytes of a frame: both header codecs, for bytes of any number
of values and any exclusive or of two of them that undoes itself (`ByteXor`, a
constant). It is a pure algorithm: its state only walks over the inputs. TLC
walks over payloads of bytes of four values, with the real exclusive or
(`MCByteXor`), up to beyond the limit; where they get long they follow one
pattern (`Pattern` in `MCInputOutput`). The theorem is about all of them.

### The threads: LoginService, RequestReply, RedisQueue, ChatLog

A wake-up (`ev_async_send`) is a flag that several sends set once. A mutex that
is held for one push or take makes that one step; the wake-up after it is
another, so a thread may stop, start or sleep in between.
`LoginService` has the main, login and HTTP threads, `Losses` (a lock that was
not had in its quarter of a second, curl's failure), the stop in the order of
`main`, and implements `RequestReply`: a request is taken on once, and answered
once or lost. `RedisQueue` has single logins and departures and the whole list
of `sendUserListToRedis` in one queue, losses before it and half-done requests
behind it. `ChatLog` has the bounded queue, readers with partial writes, and the
main thread deleting the readers when it stops the log. The start of the logger is
in two steps: `preparing` is between `logger_async` and `ev_async_start`, which
forgets what was sent before it. The stop is in four: the flag (`StopThread`), the
list of readers (`DeleteReaders`), the wake-up (`SendStop`) and the join. No lock
guards the list, so each step of the logger that uses it while the main thread is
`clearing` it may harm the process (`UsesReaders`).

### What is kept: Persistence, SavedChannels

A save truncates, writes and may be cut by a crash or a full disk, each a step;
a torn file reads as an empty one. `Persistence` has the operators, super-cops
and bans, `RLD` and files edited by hand; `saving` names what the running
handler has yet to write. `SavedChannels` has what `saveChannel` and
`loadChannel` keep of a channel, time as what is left of bans and as idleness,
and the idle tasks that remove empty rooms.

### The staff: Moderation, StaffCalls

`Moderation` has the characters of accounts, their sessions (what the map has
under a name, open or closing), the three lists and the role of each session.
`ACB` is translated as it is, with its test of the wrong person: it refuses
whoever may ban (see the findings).
`StaffCalls` numbers reports in the order they are made, so that replacing and
confirming can be told apart although call ids may be equal.

### What users say: Messages, IgnoreLists, RoomLists, Presence

`Messages` has a clock, the timers of connections and of the channel, the modes
and the hellban; what was heard, and when, is kept for the properties. The timer of
STA, which only holds back STA, is a set of connections it still runs for
(`throttled`), and runs out at some tick.
`IgnoreLists` has one account: a copy in each connection, in Redis and in each
client. A login uses an answer that the site gave earlier, so both modules have the
answer (`Answer`) apart from its use (`Login`, or `LoginFails`): `array_ignores` and
`bits` are what is in the answers that are under way. `kept` and `slipped` are
histories of what came between. `RoomLists` has the two caches. `Presence` has what each client shows
after the messages it was sent, and the answer of a search as an operator on the
connections; it leaves out throttles (a throttled command is no step).

### The Lua host: LuaHost, JsonLua, IdleTimeout

`LuaHost` has the global Lua state and those of isolated connections, their
reload, and the hook, called at every step of a handler. `JsonLua` is a pure
algorithm: the two conversions as recursive operators over generated documents;
its state walks over the documents. `IdleTimeout` is the clock of one
connection, with a loop that may be late by `MaxLag`.

### The composites

Components that share no state and whose questions do not touch are put together
by a module that has the variables of all of them, extends one and instantiates
the others (`Files` only instantiates), and names the properties of the instances:

| Composite | Components |
|---|---|
| `Supervision` | `StaffCalls`, `Moderation` |
| `Conversation` | `IgnoreLists`, `Messages`, `RoomLists` |
| `Sessions` | `LuaHost`, `IdleTimeout`, `Presence` |
| `InputOutput` | `WriteQueue`, `ReadPath`, `Framing` |
| `Threads` | `ChatLog`, `RedisQueue` |
| `Files` | `Persistence`, `SavedChannels` |

A composite gives no constant a value. Two modules extend it: the one with the
proofs, and an `MC` module, which together with its `.cfg` gives the values
(`MCInputOutput` adds `JsonLua`). In the `MC` modules a variable
`part`, chosen in the initial state, says which of the components moves; the
others rest, so that the state space is the sum and not the product of theirs,
and nothing is lost as no action of one reads a variable of another. Invariants
speak of all parts; the fairness of a part is asked of it when it is the one that
moves.

`MCChannels` does the same with four selections of users and channels: a room of
ordinary users (`room`), a room and the staff room under an admin (`admin`), two
public channels (`public`) and the staff room with its staff (`staff`); its
constraint `Bounds` limits who is banned, and where, in the last three. So does
`MCFiles` with a room, a public channel and the staff room.

## Runs

| Run | Module | Properties | Shows |
|---|---|---|---|
| `connections` | `Connections` | `MemoryOK` `MapAgrees` `CountsOK` `RedisKnows` `NameIsKept` `ImplementsRegistry` `Cleanup` | through logins, evictions and handlers aborted in every way: who owns a connection, its events and its timer; one connection per character, and it loses the name by clean-up or eviction only, as `NameRegistry` says; counts, the limit per address and Redis agree; what closes is cleaned up |
| `channels` | `MCChannels` | `ChannelsOK` `AbandonedIsDestroyed` `BanTakesEffect` `EntryByRight` `OperatorsStaySafe` | both copies of membership, counts and the list of operators agree; an abandoned room goes; the banned are out and stay out; nobody enters without a right; operators are safe from each other |
| `input_output` | `MCInputOutput` | `QueueOK` `InputOK` `FramesOK` `DocumentsOK` `ImplementsByteStream` `Delivery` `OverflowIsBacklog` `Progress` | the client gets the bytes in order, and all of them if it reads; the input stays in step with the frames, and none waits without a reason; both codecs agree; which documents survive Lua |
| `login_service` | `LoginService` | `RequestsOK` `ImplementsRequestReply` `LoginsServed` | a request is in one place, its wake-up is not lost, it is answered once or lost; a thread that is waited for is woken and sees that it is to end; the threads stop |
| `threads` | `MCThreads` | `LogOK` `LogServes` `RedisOK` `RedisServes` | log entries arrive in order; stopping the log is seen by the logger, unless it is sent before the watcher is started, and ends, and is harmless while the logger rests; Redis is repaired by the list |
| `files` | `MCFiles` | `StoredOK` `LoadsOK` `TidiedUp` | what is saved comes back, a reload loses nothing, one fault loses one file, the idle tasks repair it, which lasts until the next fault, and remove empty rooms |
| `staff` | `MCStaff` | `CallsOK` `StaffOK` | moderators hear of every report, each is confirmed once; roles follow the lists, the barred are out on every character |
| `users` | `MCUsers` | `IgnoresOK` `MessagesOK` `ListsOK` | nobody ignored is forgotten, but for a name that an answer under way is without; messages are spaced and those of the silenced unheard, but of one whose answer was older than the hellban; room lists are right within their half minute |
| `sessions` | `MCSessions` | `HandlersOK` `TimersOK` `NobodyIsCutShort` `PresenceOK` `DepartedDisappear` | Lua states in use are open, handlers have their time; who answers pings stays, nobody is closed early; clients show who is there |
| `staff_room_reset`, `hook_lost`, `account_ban` | `Connections`, `LuaHost`, `MCStaff` | `ToldIsDisconnected`; `HandlersTimeOut`; `AccountIsBanned` | the findings below |

A property named `...OK` is the conjunction of the type invariant and of the
named parts above it in its module; the parts carry the comments that say what
each is about.

### Bounds, and why they are enough

- `connections`: two connection objects and two characters. One name is what an
  eviction needs; two let a connection be refused under one name and another
  take it. An object that was cleaned up is allocated again, so that a
  login goes on against connections that come after each other. `IpMax`,
  `MaxLoginSlots` and `MaxRepeat` are 1: every limit is an ordinary event, and
  the load balancer's address makes the address change in the handshake.
- `channels`: an owner, a moderator and a bystander; two public channels, as
  operators of one act in the other; `MaxBans` 1 is reached; `TopUsers` is 2
  instead of 5 and `MaxJoined` 2 instead of 75, both compared only.
- `input_output`: messages of 1 to 3 bytes, two in the queue, so that every
  message can be cut and the queue be full; lengths of frames on both sides of
  the boundaries between one, two and eight length bytes and of the largest
  size, in a base of 4; documents three levels deep, two fields wide.
- `login_service`: two logins for one slot, and a page of Lua's on the same
  thread; each loss. Three requests put two behind each other in every queue.
- `threads`: two readers and three entries, of which two may wait; two names and
  three logins, two requests in the queue, one fault.
- `files`: one name in each list, two faults, so that a repair can be hit again;
  time-outs of one tick; a room, a public channel with more bans than are loaded
  (two of them, where `MaxBans` is 1), and the staff room.
- `staff`: a moderator and a user with three reports within two seconds; an admin
  and two characters of one account, and time-outs of one tick.
- `users`: two connections, lists of two names out of three, of which one is
  spelt in two ways; two characters of one account in one channel, whose logins are
  answered while they have no other connection (`LoginsOfTheAbsent`: an eviction is
  a `Disconnect` before the `Login`); a room and
  the two lists; four seconds, which is twice the life of a cached list.
- `sessions`: four Lua states for two connections and the global one, time-outs
  of 3 and 1 steps; periods of 12 and 3 for 120 and 30 seconds, one tick of lag;
  two clients, one an admin, two kinks and one tag.

Two runs take users for interchangeable: `channels` the three of the room, and
`users` the two characters. Neither definition tells them apart, the other parts
do not have them, and neither run checks a liveness property.

`CHECK_DEADLOCK` is off where a part stops for good: a connection that is closed
(`input_output`, `sessions`) and threads that have ended (`login_service`,
`threads`).

### Fairness

Every module states what its liveness needs as `Fairness` (`FairSpec` where it
is part of the specification).

- `Connections`: the read callback returns, as its loop runs at most `MaxRepeat`
  commands. The loop serves a timer that is due before it polls again, so the
  timer of a closing connection is strongly fair: other callbacks, during which
  it is not enabled, cannot put it off for ever. Kicks can, as each arms it
  anew; so this is only assumed if the connection is not kicked for ever.
- `WriteQueue`: libev calls a started write callback, which goes on to its next
  `send`; and strongly that a client that reads has the socket take something.
- `ReadPath`: callbacks run for data that has come, the client goes on sending,
  a delayed close fires.
- `LoginService`: each thread runs, and curl, which has a time-out of 30
  seconds, is done with every request (strongly, as its loop is interrupted).
- `ChatLog`, `RedisQueue`: each thread runs, through its start and the stop too;
  strongly those steps that other
  events of the same loop can put off (a queue that is processed, a reader that
  takes what is written, the list that is sent, the end of a connection).
- `Persistence`, `SavedChannels`: a started save goes on, a stopped server is
  started again, and the idle tasks' timer fires (strongly in `Persistence`,
  since handlers take turns with it).

Nothing is assumed of clients but where said, nor of faults, which are bounded.

## Findings

Each is found by a run that checks one property and is violated.

- `staff_room_reset`. RST may make the staff room public. Then `c.removeInvite`
  at the end of `pre_disconnect` raises an error, and a second login of a
  character is aborted between the broadcast of the first connection's departure
  and its closing: it stays, unseen, although it was told "You have been
  disconnected because this character has been logged in at another location."
  (`lua_constants.cpp:65`).
- `hook_lost`. A reload sets the time hook on the old Lua state instead of the
  new one (`server.cpp:1105`), so that no handler is ended any more, whatever
  `luaenabletimeout` says.
- `account_ban`. `ACB`, "Bans a person by their account." (`main.lua:200`), tests
  the roles of its sender where it means its target (`main.lua:219`): every
  moderator is refused.

### Seen while modelling

The modules have these too, translated as the code has them; the properties above
are stated so that they hold with them.

- `maxusers` is compared when IDN arrives (`native_command.cpp:160`). Logins that
  wait for the login server are not counted and `ident_callback` does not look
  again, so more get in than "maxusers=2000" (`startup_config.lua.sample:11`).
- CCR joins its sender without the test of 75 channels that JCH makes
  (`main.lua:419`): "You have reached the maximum number of joined channels."
  (`lua_constants.cpp:99`).
- An operator made so while online does not get the role `cop` if the name has an
  upper-case letter (`lua_channel.cpp:828`), and can be banned from another public
  channel: "This action can not be used on a moderator or administrator."
  (`lua_constants.cpp:57`). `OperatorsStaySafe` is about the others (`LowerCase`).
- `send` is offered all that is left of a message (`server.cpp:219`), while "No
  more than this amount will ever be sent to a single send() call at once."
  (`connection.cpp:39`) is said of a constant that no code uses.
- An array within an array, and an object whose key begins with `array_`, come
  back from Lua as something else (`lua_chat.cpp:1100`; the comment at 1031 says
  "so that converting them back to JSON works correctly"). `Plain` in `JsonLua`
  is the documents that do survive, and `DocumentsOK` shows that it is exactly
  those.
- A ban that was taken out of `bans.json` by hand survives RLD, as `loadBans` only
  adds (`server_state.cpp:256`): "Reloaded config variables, ops, and bans from
  disk." (`main.lua:1305`).
- Of two reports that a member of the staff makes in one second the first is lost
  (`main.lua:1540`): a call id is the second and the name.
- A demoted operator stays invited to the staff room, because the invitation that
  DOP takes back is one to a channel of another name (`main.lua:870`; "This room
  is for website and chat staff.", 2033).
- A user who is made a moderator while online gets no staff calls until the next
  login (`main.lua:265`): "The moderators have been alerted." (1560).
- Leaving a channel drops the timer of its advertisements (`channel.cpp:103`), so
  an ad may follow an ad at once: "every ten minutes" (`lua_constants.cpp:89`).
- Dice can be rolled in a channel from outside of it (`main.lua:1392`): "You must
  be in a channel to send messages to it." (`lua_constants.cpp:79`).
- Ignore lists of an account's connections are merged beyond the limit
  (`lua_connection.cpp:622`): "Your ignore list may not exceed" (`main.lua:927`).
- Whoever logs in while a closed connection is not cleaned up yet shows its
  character for ever, as the list of users has it (`lua_chat.cpp:375`) and its
  FLN was sent before.
- A name that one connection of an account puts on the ignore list while the answer
  to another's login is under way is not in the new connection's copy
  (`main.lua:1878`; `propagateIgnoreList` reaches connections in the map only), and
  the next change there writes the list to Redis without it. `IgnoredStayIgnored` is
  about the names that every answer under way has.
- A hellban misses a login that the site has answered already: `main.lua:1884` has
  the bit of the answer, and `rtb.HLB` marks the connections in the map, while its
  sender is told "Hellban against account id: ... was successful." (`main.lua:1974`).
  A status and its text reach everyone whoever sets it, as STA does not look at the
  hellban (`main.lua:1611`). `SilencedAreUnheard` is about the rest (`slipped`).
- A stop of the log that falls between `ev_async_init` and `ev_async_start`
  (`logger_thread.cpp:197`, 199) is not seen, and `pthread_join` (181) does not return.
  `StopIsSeen` and `StopEnds` leave out that stop (`stopLost`). One that falls before
  that uses a null pointer, and the list of readers is walked (173) while the logger
  may be adding to it (143): `QuietStopIsSafe` is about a logger that rests.
- A connection that never sends anything is timed against a `lastActivity` that
  nothing has set (`server.cpp:272`), and `ev_timer_again` with exactly nothing
  left stops the timer: it may stay for ever. In the run `Garbage` is 0.

## Refinements

`WriteQueue` implements `ByteStream` (`open <- ~closed`): the messages are
forgotten and the bytes accepted and received remain (`StreamImplemented`).
`LoginService` implements `RequestReply`: three threads, four queues and their
wake-ups are forgotten, and what is left is that a request is taken on once,
answered once or lost (`ServiceImplemented`). `Connections` implements
`NameRegistry` (`owner <- connectionMap`, `standing` from the tables that hold a
connection and from `closed` and `delayClose`, `address <- clientAddress`): of logins
that are answered in any order, aborted handlers, delayed closes and clean-ups by
name, there remain clients that take, lose and leave names (`RegistryKept`). All three
are model-checked and proved.

## Proofs

Every safety invariant and action property that the passing runs check is proved
for every value of the constants, but for `DocumentsOK`. The constants are
those that satisfy the named assumption of their module (`SentinelAssumption` in
`Connections`, `InputAssumption` in `ReadPath`, ...). A module that others
extend has it as an `ASSUME`; one that is only instantiated has it as a definition, which
its theorems take as a hypothesis and which its run's `MC` module assumes of the
values it gives. TLC evaluates all of them in the runs.

A proof module extends a component, or a composite and so the very definitions
that the run of the composite checks. A theorem about a component that is
instantiated is `M!Spec => []StaffOK`; the parts of a run never move together, so
the theorems about the parts are about the run. Each proof goes the same way:
initial states satisfy the inductive invariant, every action keeps it (a lemma
for each, or for a family of them), and it implies what the run checks. `IndInv`,
`Inv` or `...Inv` is the invariant.

- `ConnectionsProofs`, first part: `MemoryCorrect`, from `TypeCorrect`, `MemorySafe`,
  `MapConsistent` and `ReaderOpen`. Ownership and the map are not inductive
  alone. The invariant is `TypeOK /\ Ownership /\ ReaderIsOpen`, where
  `Ownership` says of each connection, by `Sound(k, held)`, how its flags, its
  events and being held by a table go together, and adds `MapAgrees` and
  `StaffAreMapped`. The map is needed for ownership: a clean-up takes an
  identified connection out *by name*, which is only right if that name is its
  own; and ownership is needed for the map: a connection whose events are deleted
  must have left it. Lemmas say what each operation does to the fields of one
  connection; steps that leave the tables alone follow from one lemma, and each
  login action has its own.
- `ConnectionsProofs`, second part: `CountsCorrect`, `RedisCorrect`, `NamesKept`.
  The counts are stated of a set of names and their addresses (`Counts`), for
  which lemmas add, remove and exchange a name. What has to be added is
  `PastHandshake`: an address can only change before a connection is counted
  under it. `NamesKept` follows from the invariant with a case for each action.
- `ConnectionsProofs`, third part: `RegistryKept`, from both invariants. A step that
  moves no name dismisses those it marks, possibly none (`DismissStep`), which covers most
  of the actions; closing, clean-up, eviction and identification have a lemma
  each. `MapAgrees` shows that a clean-up leaves with its own name only and that who
  identifies has none yet, `CountsAgree` that the limit tested on the count is one on names,
  `PastHandshake` that nobody with a name changes address.
- `ChannelsProofs`: `ChannelsCorrect`, from five theorems. The invariant has four
  parts, each a formula about values so that it can be stated of intermediate
  channel objects too: every channel is well formed, its count is right and it
  is empty when absent; the two copies of membership agree; members are online;
  the list of operators is that of the public channels. The strengthening that
  matters is that an absent channel has no participants (else a channel created
  under an old name would start with members); the parts need each other, as
  destroying a channel updates the users' lists from the channel's own set.
  The action properties (`LastOneOut`, `BansTakeEffect`, `EntriesAreByRight`) say
  something of one channel object before and after a step (`Right(ch, k, r)`), and
  `StepIsRight` shows it of every step, along with who may be newly banned by it
  (`BansOnly`). `LastOneOut` needs the counts of the invariant.
  `OperatorsNotBanned` (`OperatorsStaySafe`) needs an
  invariant of its own, `Ranked`: channels of CRC stay public, and the role
  `cop` of whoever is found follows the list of operators.
- `LoginServiceProofs`: `RequestsCorrect` and `ServiceImplemented`. That a request is
  in one place is carried as: no queue has it twice (`QueuesOnce`), no two places
  share one (`PlacesApart`), and the numbers add up (`Counted`). `NoLostWakeup` is
  not inductive; `WakeInv` says of each of the four queues who is about to send its
  wake-up, also while a thread is starting. `StopIsSeen`, that a thread that is joined
  finds its flag down and a wake-up, needs when the flags go down (`StopInv`).
  `ShutdownShrinks` is about the end: once the main thread has left its loop every
  step of any thread makes `StepsLeft` smaller, a number that weighs the requests in
  each queue and with curl, the wake-ups that are pending and where each thread is. What
  is left is finite, whatever was under way.
- `InputOutputProofs`: `QueueCorrect`, `QueueIsTheRest` and `StreamImplemented` of `WriteQueue`.
  `QueueIsUnsent` needs that the position lies within the front message (`Within`),
  and that a callback that is at work is one of an open connection. The limit of
  the queue is an induction over the steps of its own: a message keeps its place or
  moves to the front. `InputCorrect` and `FramesFit` of `ReadPath`: what was sent and
  not taken is what the buffer and the socket hold (`StreamIs`), with running
  sums for the lengths of frames instead of a recursive one. `FramesCorrect` of
  `Framing`: the bytes that `sendMessage` writes for a length are its shifts, and the
  running values of reading them are the same shifts backwards (`PiecesTell`), for a length of
  two bytes or one in an unsigned int in eight; what `receive` makes of whatever
  has arrived depends only on what the header tells and how much there is
  (`ReceiveIs`), of which whole frames, frames with others behind them and parts are
  the cases.
- `StaffProofs`: `CallsCorrect` of `StaffCalls`. The invariant adds that what is
  listed are calls (`Listing`), that call ids come from the call's author and time
  (`Numbering`), and that targets are online. `StaffCorrect` of `Moderation`, whose
  `StaffOK` is inductive as it is.
- `UsersProofs`: `IgnoresCorrect` of `IgnoreLists`, where the two properties are
  inductive together, with lemmas on `Propagated` (what is kept is in every answer
  under way, and so in the copy of a login); `MessagesCorrect` of `Messages`
  (the timers are never behind what was passed on; all connections of a silenced
  account are marked or had an outdated answer, and no answer that says that an
  account is clear is wrong about it unnoticed); `ListsCorrect` of `RoomLists` (`MadeOf`: every change a list
  does not show came after it was made).
- `SessionsProofs`: `HandlersCorrect` of `LuaHost` (states that run are open and
  belong to somebody; the timer never runs ahead of the handler); `TimersCorrect` and
  `NobodyCutShort` of `IdleTimeout`, the first for any periods into which a late login, an
  interval between pings and a late answer fit (`SlackAssumption`); both for a
  `lastActivity` that, not yet set, is not in the future (`PastAssumption`, of the
  first only); `PresenceCorrect` and `TheDepartedDisappear` of `Presence`.
- `StorageProofs`: `LogCorrect` of `ChatLog` (`Sent` says entry by entry, half by half, what
  `InOrder` says as an equation of sequences; `StopInv` is `StopIsSeen` with the flag
  that is down from the stop on); `UserListCorrect` of `RedisQueue` (what a
  queue makes of one name, when a request is added at its end or taken off its
  front) and `RedisStops` (after the stop at most three steps are left, whatever is
  queued); `FilesCorrect` and `FilesAreRead` of `Persistence` (in the middle of a handler,
  a file that differs from memory is still to be written, and the last write of
  it writes what memory has). From that invariant, too, `FilesAreRead` has
  `RepairLasts`: without a fault no file gets wrong, and the idle tasks set out to write
  all that are. `ChannelsKept` and `ChannelsAreRead` of
  `SavedChannels`. `StoredCorrect` and `LoadsCorrect` put the last four together as the
  run does.

Only model-checked:

- `DocumentsOK`: `JsonLua` has recursive operators, which the provers do not take;
  what they compute for every document would be an induction over data.
- That the exclusive or of numbers is one that `Framing` allows: `Bitwise` is
  recursive too, and TLC evaluates `FramingAssumption` for bytes of four values.
- Liveness: `Cleanup`, `Delivery`, `Progress`, `LoginsServed`, `LogServes`, `RedisServes`
  and `TidiedUp`. Fairness and `ENABLED` are out of the prover's reach. The safety
  that some of them rest on is proved: `StopIsSeen`, `ShutdownShrinks` and `RedisStops` for
  the ends of the threads, `RepairLasts` for the repair of files, `NoLostWakeup` and the
  like for what is waited for.

## Not modelled

- The numbers of descriptors. Two paths close one twice, which matters only with
  the other threads' descriptors; no module has them.
- `bind` and its retries; what a fatal log does; the destruction of the tables
  when the program exits.
- Alt watches: nothing calls `addAltWatch`.
- Reference counts of JSON values.
- Accepting and reading the RTB socket; its commands are modelled.
- The startup configuration (its values are constants), the flash policy server
  (a program without state), `login_curl.cpp` (not built), hashes and Unicode
  normalisation (vendored or libicu).
- `VAR`, `PRO`, `KIN`, `UPT`, `FRL`, `TPN` and `BRO`, which read, answer or relay.
- A handler that is ended half way, except in `ident_callback` (`Faults` of
  `Connections`); elsewhere a handler is one step.
- All threads at once: each has its module, which has the part of the main
  thread that it deals with.

## What could come next

An abstract door for `Channels` (who is in a channel and who is barred from it),
which `Right` in `ChannelsProofs` nearly is, would state `EntryByRight` and
`BanTakesEffect` as one refinement. A module with the numbers of
descriptors, which all threads share and two paths close twice, would show whom the
second close can hit.
