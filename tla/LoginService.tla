---------------------------- MODULE LoginService ----------------------------
(***************************************************************************)
(* The three threads a login passes through.  The main thread queues a     *)
(* request and wakes the login thread, which turns it into an HTTP request *)
(* and wakes the HTTP thread, which has curl fetch the answer; that comes  *)
(* back through a queue of replies and a wake-up of the main loop.  Lua's  *)
(* own HTTP requests join at the second queue and have replies of theirs.  *)
(*                                                                         *)
(* A wake-up is ev_async_send: it is remembered until the loop of the      *)
(* woken thread sees it, and several are one.  A thread takes the items of *)
(* its queue one at a time, so pushing, waking and taking interleave; a    *)
(* mutex is held for one push or take, which is therefore one step.        *)
(***************************************************************************)
EXTENDS Integers, Sequences, FiniteSets

CONSTANTS
    Login,          \* logins; a connection asks for one at most
    Page,           \* HTTP requests of Lua handlers
    MaxLoginSlots,  \* capacity of the login queue
    Losses          \* the ways a request may be lost, of "lock" and "curl"

ASSUME RequestAssumption == Login \cap Page = {} /\ IsFiniteSet(Login \cup Page)
ASSUME SlotAssumption == MaxLoginSlots \in Nat
ASSUME LossAssumption == Losses \subseteq {"lock", "curl"}

VARIABLES
    main,           \* what the main thread does
    loginThread,    \* what the login thread does
    httpThread,     \* what the HTTP thread does
    running,        \* the threads whose doRun is set
    woken,          \* the loops with a wake-up pending
    dropped,        \* the loops a wake-up was dropped for as they had not started
    requests,       \* LoginEvHTTPClient::requestQueue
    httpRequests,   \* HTTPClient::requestQueue
    transfers,      \* requests curl works on
    replies,        \* LoginEvHTTPClient::replyQueue
    httpReplies,    \* HTTPClient::replyQueue
    refused,        \* requests told at once that they cannot be taken
    asked, answered, lost

queues == <<requests, httpRequests, transfers, replies, httpReplies>>
history == <<refused, asked, answered, lost>>
vars == <<main, loginThread, httpThread, running, woken, dropped, queues, history>>

Request == Login \cup Page
Loops == {"login", "http", "server", "server_http"}

\* Where a thread is: its loop does not exist yet, it waits in the loop, it
\* empties its queue, it is about to wake the HTTP thread or the main loop,
\* for a login or a page, or it has ended.
Thread ==
    {"starting", "waiting", "busy", "waking", "wakeServer", "wakePages", "ended"}

\* The main thread serves connections, or stops the other two in turn.
Main ==
    {"serving", "wakeLogin", "wakeHttp", "logins", "pages", "left",
     "stopHttp", "joinHttp", "stopLogin", "joinLogin", "done"}

Init ==
    /\ main = "serving" /\ loginThread = "starting" /\ httpThread = "starting"
    /\ running = {"login", "http"} /\ woken = {} /\ dropped = {}
    /\ requests = <<>> /\ httpRequests = <<>> /\ transfers = {}
    /\ replies = <<>> /\ httpReplies = <<>>
    /\ refused = {} /\ asked = {} /\ answered = {} /\ lost = {}

Unasked(r) == r \notin asked \cup refused

\* ev_async_send, if the loop exists.
Wake(loop, exists) ==
    IF exists THEN woken' = woken \cup {loop} /\ UNCHANGED dropped
    ELSE dropped' = dropped \cup {loop} /\ UNCHANGED woken

-----------------------------------------------------------------------------
(* The main thread serves *)

\* IdentCommand queues a request.
AddLogin(r) ==
    /\ main = "serving" /\ r \in Login /\ Unasked(r)
    /\ Len(requests) < MaxLoginSlots
    /\ requests' = Append(requests, r)
    /\ asked' = asked \cup {r}
    /\ main' = "wakeLogin"
    /\ UNCHANGED <<loginThread, httpThread, running, woken, dropped, httpRequests,
                   transfers, replies, httpReplies, refused, answered, lost>>

\* The queue is full, or its lock was not had in time: the client is told.
RefuseLogin(r) ==
    /\ main = "serving" /\ r \in Login /\ Unasked(r)
    /\ Len(requests) >= MaxLoginSlots \/ "lock" \in Losses
    /\ refused' = refused \cup {r}
    /\ UNCHANGED <<main, loginThread, httpThread, running, woken, dropped, queues,
                   asked, answered, lost>>

WakeLogin ==
    /\ main = "wakeLogin" /\ main' = "serving"
    /\ Wake("login", loginThread # "starting")
    /\ UNCHANGED <<loginThread, httpThread, running, queues, history>>

\* http.get and http.post of a Lua handler.
AddPage(r) ==
    /\ main = "serving" /\ r \in Page /\ Unasked(r)
    /\ httpRequests' = Append(httpRequests, r)
    /\ asked' = asked \cup {r}
    /\ main' = "wakeHttp"
    /\ UNCHANGED <<loginThread, httpThread, running, woken, dropped, requests,
                   transfers, replies, httpReplies, refused, answered, lost>>

\* The lock was not had in time: the request is deleted.
RefusePage(r) ==
    /\ main = "serving" /\ r \in Page /\ Unasked(r) /\ "lock" \in Losses
    /\ refused' = refused \cup {r}
    /\ UNCHANGED <<main, loginThread, httpThread, running, woken, dropped, queues,
                   asked, answered, lost>>

\* HTTPClient::sendWakeup, by either thread that adds requests.
SendWakeup ==
    IF "http" \in running THEN Wake("http", httpThread # "starting")
    ELSE UNCHANGED <<woken, dropped>>

WakeHttp ==
    /\ main = "wakeHttp" /\ main' = "serving"
    /\ SendWakeup
    /\ UNCHANGED <<loginThread, httpThread, running, queues, history>>

\* processWakeupCallback and processHTTPWakeup start.
ServerWakes ==
    /\ main = "serving"
    /\ \/ "server" \in woken /\ woken' = woken \ {"server"} /\ main' = "logins"
       \/ /\ "server_http" \in woken /\ woken' = woken \ {"server_http"}
          /\ main' = "pages"
    /\ UNCHANGED <<loginThread, httpThread, running, dropped, queues, history>>

\* Mutated form of TakeReply: one reply is taken for each wake-up.
TakeReplyOnce ==
    /\ main = "logins" /\ replies # <<>>
    /\ answered' = answered \cup {Head(replies)}
    /\ replies' = Tail(replies)
    /\ main' = "serving"
    /\ UNCHANGED <<loginThread, httpThread, running, woken, dropped,
                   requests, httpRequests, transfers, httpReplies,
                   refused, asked, lost>>

\* A login is answered, or its connection is found closed.
TakeReply ==
    /\ main = "logins" /\ replies # <<>>
    /\ answered' = answered \cup {Head(replies)}
    /\ replies' = Tail(replies)
    /\ UNCHANGED <<main, loginThread, httpThread, running, woken, dropped,
                   requests, httpRequests, transfers, httpReplies,
                   refused, asked, lost>>

\* The callback of a Lua handler is called.
TakePage ==
    /\ main = "pages" /\ httpReplies # <<>>
    /\ answered' = answered \cup {Head(httpReplies)}
    /\ httpReplies' = Tail(httpReplies)
    /\ UNCHANGED <<main, loginThread, httpThread, running, woken, dropped,
                   requests, httpRequests, transfers, replies,
                   refused, asked, lost>>

RepliesTaken ==
    /\ \/ main = "logins" /\ replies = <<>>
       \/ main = "pages" /\ httpReplies = <<>>
    /\ main' = "serving"
    /\ UNCHANGED <<loginThread, httpThread, running, woken, dropped, queues,
                   history>>

-----------------------------------------------------------------------------
(* The login thread *)

LoginStarts ==
    /\ loginThread = "starting" /\ loginThread' = "waiting"
    /\ UNCHANGED <<main, httpThread, running, woken, dropped, queues, history>>

LoginWakes ==
    /\ loginThread = "waiting" /\ "login" \in woken
    /\ woken' = woken \ {"login"}
    /\ loginThread' = IF "login" \in running THEN "busy" ELSE "ended"
    /\ UNCHANGED <<main, httpThread, running, dropped, queues, history>>

\* processLogin; the request is lost if the HTTP queue cannot be locked.
Forward ==
    /\ loginThread = "busy" /\ requests # <<>>
    /\ requests' = Tail(requests)
    /\ \/ /\ httpRequests' = Append(httpRequests, Head(requests))
          /\ loginThread' = "waking" /\ UNCHANGED lost
       \/ /\ "lock" \in Losses
          /\ lost' = lost \cup {Head(requests)}
          /\ UNCHANGED <<httpRequests, loginThread>>
    /\ UNCHANGED <<main, httpThread, running, woken, dropped, transfers, replies,
                   httpReplies, refused, asked, answered>>

LoginWakesHttp ==
    /\ loginThread = "waking" /\ loginThread' = "busy"
    /\ SendWakeup
    /\ UNCHANGED <<main, httpThread, running, queues, history>>

LoginDone ==
    /\ loginThread = "busy" /\ requests = <<>>
    /\ loginThread' = "waiting"
    /\ UNCHANGED <<main, httpThread, running, woken, dropped, queues, history>>

-----------------------------------------------------------------------------
(* The HTTP thread *)

HttpStarts ==
    /\ httpThread = "starting" /\ httpThread' = "waiting"
    /\ UNCHANGED <<main, loginThread, running, woken, dropped, queues, history>>

\* A thread that ends leaves curl's requests unfinished.
HttpWakes ==
    /\ httpThread = "waiting" /\ "http" \in woken
    /\ woken' = woken \ {"http"}
    /\ IF "http" \in running
       THEN httpThread' = "busy" /\ UNCHANGED <<transfers, lost>>
       ELSE /\ httpThread' = "ended"
            /\ transfers' = {} /\ lost' = lost \cup transfers
    /\ UNCHANGED <<main, loginThread, running, dropped, requests, httpRequests,
                   replies, httpReplies, refused, asked, answered>>

\* Curl takes the request or fails, and nobody is told.
ProcessRequest ==
    /\ httpThread = "busy" /\ httpRequests # <<>>
    /\ httpRequests' = Tail(httpRequests)
    /\ \/ transfers' = transfers \cup {Head(httpRequests)} /\ UNCHANGED lost
       \/ /\ "curl" \in Losses
          /\ lost' = lost \cup {Head(httpRequests)}
          /\ UNCHANGED transfers
    /\ UNCHANGED <<main, loginThread, httpThread, running, woken, dropped, requests,
                   replies, httpReplies, refused, asked, answered>>

HttpDone ==
    /\ httpThread = "busy" /\ httpRequests = <<>>
    /\ httpThread' = "waiting"
    /\ UNCHANGED <<main, loginThread, running, woken, dropped, queues, history>>

\* Mutated form of ResponseDone: curl keeps the request.
ResponseDoneKept(r) ==
    /\ httpThread = "waiting" /\ r \in transfers
    /\ IF r \in Login
       THEN replies' = Append(replies, r) /\ UNCHANGED httpReplies
       ELSE httpReplies' = Append(httpReplies, r) /\ UNCHANGED replies
    /\ httpThread' = IF r \in Login THEN "wakeServer" ELSE "wakePages"
    /\ UNCHANGED <<main, loginThread, running, woken, dropped, requests,
                   httpRequests, transfers, history>>

\* Curl has finished a request, with an answer, an error or its time-out.
ResponseDone(r) ==
    /\ httpThread = "waiting" /\ r \in transfers
    /\ transfers' = transfers \ {r}
    /\ IF r \in Login
       THEN replies' = Append(replies, r) /\ UNCHANGED httpReplies
       ELSE httpReplies' = Append(httpReplies, r) /\ UNCHANGED replies
    /\ httpThread' = IF r \in Login THEN "wakeServer" ELSE "wakePages"
    /\ UNCHANGED <<main, loginThread, running, woken, dropped, requests,
                   httpRequests, history>>

\* The server's loop exists until the main thread left it.
ServerLoop == main \in {"serving", "wakeLogin", "wakeHttp", "logins", "pages"}

\* Server::sendWakeup or sendHTTPWakeup, after the reply that was added.
WakeServer ==
    /\ httpThread \in {"wakeServer", "wakePages"} /\ httpThread' = "waiting"
    /\ woken' = IF ~ServerLoop THEN woken
                ELSE woken \cup {IF httpThread = "wakeServer" THEN "server"
                                 ELSE "server_http"}
    /\ UNCHANGED <<main, loginThread, running, dropped, queues, history>>

-----------------------------------------------------------------------------
(* The main thread stops *)

\* ev_loop returns and the loop's watchers are deleted.
Leave ==
    /\ main = "serving" /\ main' = "left"
    /\ woken' = woken \ {"server", "server_http"}
    /\ UNCHANGED <<loginThread, httpThread, running, dropped, queues, history>>

\* After a wait in which the threads have long started, doRun is cleared.
StopHttp ==
    /\ main = "left" /\ main' = "stopHttp"
    /\ httpThread # "starting" /\ loginThread # "starting"
    /\ running' = running \ {"http"}
    /\ UNCHANGED <<loginThread, httpThread, woken, dropped, queues, history>>

\* Mutated form of WakeStopped: no wake-up is sent.
WakeStoppedNot ==
    /\ \/ main = "stopHttp" /\ main' = "joinHttp"
       \/ main = "stopLogin" /\ main' = "joinLogin"
    /\ UNCHANGED <<loginThread, httpThread, running, woken, dropped, queues,
                   history>>

\* The wake-up of stopThread.
WakeStopped ==
    /\ \/ main = "stopHttp" /\ main' = "joinHttp" /\ woken' = woken \cup {"http"}
       \/ /\ main = "stopLogin" /\ main' = "joinLogin"
          /\ woken' = woken \cup {"login"}
    /\ UNCHANGED <<loginThread, httpThread, running, dropped, queues, history>>

JoinHttp ==
    /\ main = "joinHttp" /\ httpThread = "ended"
    /\ main' = "stopLogin" /\ running' = running \ {"login"}
    /\ UNCHANGED <<loginThread, httpThread, woken, dropped, queues, history>>

JoinLogin ==
    /\ main = "joinLogin" /\ loginThread = "ended"
    /\ main' = "done"
    /\ UNCHANGED <<loginThread, httpThread, running, woken, dropped, queues, history>>

-----------------------------------------------------------------------------
(* The specification *)

MainServes ==
    \/ WakeLogin \/ WakeHttp \/ ServerWakes \/ TakeReply \/ TakePage
    \/ RepliesTaken
MainStops == StopHttp \/ WakeStopped \/ JoinHttp \/ JoinLogin
LoginRuns ==
    LoginStarts \/ LoginWakes \/ Forward \/ LoginWakesHttp \/ LoginDone
HttpRuns ==
    HttpStarts \/ HttpWakes \/ ProcessRequest \/ HttpDone \/ WakeServer
Responds == \E r \in Request : ResponseDone(r)

Next ==
    \/ \E r \in Request :
        AddLogin(r) \/ RefuseLogin(r) \/ AddPage(r) \/ RefusePage(r)
    \/ MainServes \/ Leave \/ MainStops
    \/ LoginRuns \/ HttpRuns \/ Responds

Spec == Init /\ [][Next]_vars

\* The system schedules every thread, and curl's time-out ends a transfer.
Fairness ==
    /\ WF_vars(MainServes) /\ WF_vars(MainStops)
    /\ WF_vars(LoginRuns) /\ WF_vars(HttpRuns)
    /\ \A r \in Request : SF_vars(ResponseDone(r))

FairSpec == Spec /\ Fairness

-----------------------------------------------------------------------------
(* Properties *)

TypeOK ==
    /\ main \in Main /\ loginThread \in Thread /\ httpThread \in Thread
    /\ running \subseteq {"login", "http"}
    /\ woken \subseteq Loops /\ dropped \subseteq Loops
    /\ requests \in Seq(Login) /\ Len(requests) <= MaxLoginSlots
    /\ httpRequests \in Seq(Request) /\ transfers \subseteq Request
    /\ replies \in Seq(Login) /\ httpReplies \in Seq(Page)
    /\ \A s \in {refused, asked, answered, lost} : s \subseteq Request

InQueue(q) == {q[i] : i \in DOMAIN q}
Waiting == {requests, httpRequests, replies, httpReplies}
Places ==
    {InQueue(q) : q \in Waiting} \cup {transfers, answered, lost}

\* A request that was taken on is in exactly one place, and once: in a
\* queue, with curl, answered, or lost.
InOnePlace ==
    /\ asked = UNION Places
    /\ Len(requests) + Len(httpRequests) + Len(replies) + Len(httpReplies)
        + Cardinality(transfers) + Cardinality(answered) + Cardinality(lost)
            = Cardinality(asked)

\* A thread that waits with something in its queue has a wake-up pending,
\* or is about to be sent one, unless one was sent before its loop existed.
NoLostWakeup ==
    /\ loginThread = "waiting" /\ requests # <<>>
        => "login" \in woken \cup dropped \/ main = "wakeLogin"
    /\ httpThread = "waiting" /\ httpRequests # <<>>
        => \/ "http" \in woken \cup dropped
           \/ main = "wakeHttp" \/ loginThread = "waking"
           \/ "http" \notin running
    /\ main = "serving" /\ replies # <<>>
        => "server" \in woken \/ httpThread = "wakeServer"
    /\ main = "serving" /\ httpReplies # <<>>
        => "server_http" \in woken \/ httpThread = "wakePages"

\* Whoever the main thread waits for has ended or will find that it is to:
\* its doRun is cleared and its wake-up pending, whatever it had to do and
\* whichever wake-ups it took before.
StopIsSeen ==
    /\ main = "joinHttp" => httpThread = "ended" \/ "http" \in woken \ running
    /\ main = "joinLogin" => loginThread = "ended" \/ "login" \in woken \ running

\* Where requests are between the threads, and who is to see to them.
RequestsOK == TypeOK /\ InOnePlace /\ NoLostWakeup /\ StopIsSeen

\* The threads together answer each request at most once.
Service == INSTANCE RequestReply
ImplementsRequestReply == Service!Spec

\* Again and again no request is owed an answer: each is answered or lost, or
\* the server stops, or the wake-up for it was sent before the thread had
\* started.
Answered == []<>(asked \subseteq answered \cup lost \/ ~ServerLoop \/ dropped # {})

\* Once the main thread has left its loop, both threads end and are joined.
Stops == main = "left" ~> main = "done"

\* Requests are served, and the threads end.
LoginsServed == Answered /\ Stops
=============================================================================
