------------------------------- MODULE HubAccess -------------------------------
(***************************************************************************)
(* What every request to the sync hub passes - the rate limiter, the size  *)
(* limit, the credential, the validation of the body - and the user and    *)
(* skill registries behind it. The hub's push and pull are in TeamSync.    *)
(*                                                                         *)
(* The middlewares run one after the other in the event loop; a handler    *)
(* is a plain function and runs in a thread, so that handlers interleave   *)
(* at their database calls. Time is the clock of the process in seconds;   *)
(* the registries are stamped with it too.                                 *)
(***************************************************************************)
EXTENDS Integers, Sequences, FiniteSets

CONSTANTS
  Addresses,       \* client addresses
  Clients,         \* holders of a credential
  Requests,        \* requests under way
  RateMax,         \* RATE_LIMIT_MAX_REQUESTS, 60
  RateWindow,      \* RATE_LIMIT_WINDOW_SECONDS, 60
  MaxHubTime,      \* bound: seconds
  MaxHubRequests   \* bound: requests that arrive

ASSUME HubAssumption ==
  /\ {RateWindow, MaxHubTime, MaxHubRequests} \subseteq Nat
  /\ RateMax \in Nat \ {0}

VARIABLES
  keys,       \* the configured credentials: "per_user", "shared", "open" or "none"
  now,        \* time.monotonic()
  limiter,    \* _rate_limit_store: address |-> times
  users,      \* table users: actor |-> [registered, seen]
  skills,     \* table shared_skills: the row of a skill, [owner, shared], if there is one
  requests,   \* the requests under way
  arrived,
  admitted,   \* history: times at which requests of an address were let through
  refused,    \* history: times at which one was refused
  latest,     \* history: the newest time written by a registration of an actor
  overlapped  \* history: actors two of whose registrations ran at a time

hubHistory == <<admitted, refused, latest, overlapped>>
hubVars == <<keys, now, limiter, users, skills, requests, arrived, hubHistory>>

Actors == Clients \cup {"single-user", "local-development"}
\* get_api_key, get_sync_actor: whom a request with a valid credential acts for.
ActorOf(client) == CASE keys = "per_user" -> client
                     [] keys = "shared" -> "single-user"
                     [] OTHER -> "local-development"

FreeRequest == [at |-> "free"]

HubInit ==
  /\ keys \in {"per_user", "shared", "open", "none"}
  /\ now = 0 /\ arrived = 0
  /\ limiter = [a \in Addresses |-> <<>>]
  /\ users = <<>> /\ skills = {}
  /\ requests = [q \in Requests |-> FreeRequest]
  /\ admitted = [a \in Addresses |-> <<>>] /\ refused = [a \in Addresses |-> {}]
  /\ latest = <<>> /\ overlapped = {}

-----------------------------------------------------------------------------
(* RateLimitMiddleware is the outermost: what it lets through counts, even *)
(* if the request is then found too large, unauthenticated or malformed    *)

\* Slip, for mutation: a request exactly one window old no longer counts.
RecentHalfOpen(times) ==
  SubSeq(times, Cardinality({i \in DOMAIN times : \A j \in 1..i : times[j] <= now - RateWindow}) + 1, Len(times))

\* _check_rate_limit: what is left when the front is evicted while it is too old.
Evicted(times) == {i \in DOMAIN times : \A j \in 1..i : times[j] < now - RateWindow}
Recent(times) == SubSeq(times, Cardinality(Evicted(times)) + 1, Len(times))

Arrives(q) ==
  /\ requests[q].at = "free" /\ arrived < MaxHubRequests /\ arrived' = arrived + 1

\* Slip, for mutation: a request that is refused counts as well.
RefuseAndCount(q, a) ==
  /\ Arrives(q)
  /\ Len(Recent(limiter[a])) >= RateMax
  /\ limiter' = [limiter EXCEPT ![a] = Append(Recent(@), now)]
  /\ refused' = [refused EXCEPT ![a] = @ \cup {now}]
  /\ UNCHANGED <<keys, now, users, skills, requests, admitted, latest, overlapped>>

Refuse(q, a) ==
  /\ Arrives(q)
  /\ Len(Recent(limiter[a])) >= RateMax
  /\ limiter' = [limiter EXCEPT ![a] = Recent(@)]
  /\ refused' = [refused EXCEPT ![a] = @ \cup {now}]
  /\ UNCHANGED <<keys, now, users, skills, requests, admitted, latest, overlapped>>

Admitted(a) ==
  /\ Len(Recent(limiter[a])) < RateMax
  /\ limiter' = [limiter EXCEPT ![a] = Append(Recent(@), now)]
  /\ admitted' = [admitted EXCEPT ![a] = Append(@, now)]

\* 413 of RequestSizeLimitMiddleware, 503 and 403 of get_api_key, 422 of the models.
Reject(q, a) ==
  /\ Arrives(q) /\ Admitted(a)
  /\ UNCHANGED <<keys, now, users, skills, requests, refused, latest, overlapped>>

\* register_user and share_skill take the time first ...
Enter(q, a, client, kind) ==
  /\ Arrives(q) /\ Admitted(a) /\ keys # "none"
  /\ LET actor == ActorOf(client)
         others == {r \in Requests : /\ requests[r].at = "write" /\ requests[r].kind = "register"
                                     /\ requests[r].actor = actor}
     IN /\ requests' = [requests EXCEPT ![q] =
             [at |-> "write", kind |-> kind, actor |-> actor, time |-> now]]
        /\ overlapped' = IF kind = "register" /\ others # {} THEN overlapped \cup {actor} ELSE overlapped
  /\ UNCHANGED <<keys, now, users, skills, refused, latest>>

\* Slip, for mutation: the row of a user who is known is left alone.
RegisteredOnce(actor, time) ==
  [u \in DOMAIN users \cup {actor} |->
     IF u \in DOMAIN users THEN users[u] ELSE [registered |-> time, seen |-> time]]

\* ... then write in a transaction of their own: INSERT ... ON CONFLICT DO UPDATE.
Registered(actor, time) ==
  [u \in DOMAIN users \cup {actor} |->
     IF u # actor THEN users[u]
     ELSE [registered |-> IF u \in DOMAIN users THEN users[u].registered ELSE time, seen |-> time]]

\* The answer counts the users, over a connection of its own.
WriteUser(q) ==
  LET actor == requests[q].actor
      time == requests[q].time
  IN /\ requests[q].at = "write" /\ requests[q].kind = "register"
     /\ users' = Registered(actor, time)
     /\ latest' = [u \in DOMAIN latest \cup {actor} |->
                     IF u = actor /\ (u \in DOMAIN latest => latest[u] < time) THEN time ELSE latest[u]]
     /\ requests' = [requests EXCEPT ![q] = FreeRequest]
     /\ UNCHANGED <<keys, now, limiter, skills, arrived, admitted, refused, overlapped>>

WriteSkill(q) ==
  /\ requests[q].at = "write" /\ requests[q].kind = "share"
  /\ skills' = {[owner |-> requests[q].actor, shared |-> requests[q].time]}
  /\ requests' = [requests EXCEPT ![q] = FreeRequest]
  /\ UNCHANGED <<keys, now, limiter, users, arrived, hubHistory>>

\* The hub database is locked: the answer is 500, nothing was written.
WriteFails(q) ==
  /\ requests[q].at = "write"
  /\ requests' = [requests EXCEPT ![q] = FreeRequest]
  /\ UNCHANGED <<keys, now, limiter, users, skills, arrived, hubHistory>>

Second ==
  /\ now < MaxHubTime /\ now' = now + 1
  /\ UNCHANGED <<keys, limiter, users, skills, requests, arrived, hubHistory>>

\* The hub is restarted: the registries are in its database, the limiter is not.
RestartHub ==
  /\ requests # [q \in Requests |-> FreeRequest]
  /\ requests' = [q \in Requests |-> FreeRequest]
  /\ limiter' = [a \in Addresses |-> <<>>]
  /\ admitted' = [a \in Addresses |-> <<>>] /\ refused' = [a \in Addresses |-> {}]
  /\ UNCHANGED <<keys, now, users, skills, arrived, latest, overlapped>>

HubNext ==
  \/ \E q \in Requests :
       \/ \E a \in Addresses :
            \/ Refuse(q, a) \/ Reject(q, a)
            \/ \E client \in Clients, kind \in {"register", "share"} : Enter(q, a, client, kind)
       \/ WriteUser(q) \/ WriteSkill(q) \/ WriteFails(q)
  \/ Second \/ RestartHub

HubSpec == HubInit /\ [][HubNext]_hubVars
-----------------------------------------------------------------------------
HubRequest == [at : {"write"}, kind : {"register", "share"}, actor : Actors, time : 0..MaxHubTime]

HubTypeOK ==
  /\ now \in 0..MaxHubTime /\ arrived \in 0..MaxHubRequests
  /\ \A a \in Addresses : /\ limiter[a] \in Seq(0..now) /\ Len(limiter[a]) <= RateMax
                          /\ admitted[a] \in Seq(0..now) /\ refused[a] \subseteq 0..now
  /\ DOMAIN users \subseteq Actors
  /\ \A u \in DOMAIN users : users[u] \in [registered : 0..now, seen : 0..now]
  /\ skills \subseteq [owner : Actors, shared : 0..now]
  /\ requests \in [Requests -> {FreeRequest} \cup HubRequest]

\* No stretch of a whole window, both its ends included, holds more admitted
\* requests of an address than the limit, whenever they come: of any
\* RateMax + 1 in a row the last is more than a window after the first
\* (_check_rate_limit). A restart of the hub begins anew.
WindowBound ==
  \A a \in Addresses : \A i, j \in DOMAIN admitted[a] :
    j - i >= RateMax => admitted[a][j] - admitted[a][i] > RateWindow

\* Nobody is refused for what was refused before: behind every refusal lie
\* as many admitted requests as are allowed, within one window, so that a client
\* that keeps on asking gets in again when those have aged (_check_rate_limit).
RefusedOnlyWhenFull ==
  \A a \in Addresses : \A t \in refused[a] :
    Cardinality({i \in DOMAIN admitted[a] : admitted[a][i] \in (t - RateWindow)..t}) >= RateMax

\* The limiter is exact in both directions.
LimiterExact == WindowBound /\ RefusedOnlyWhenFull

\* last_seen_at is the time of the newest registration of that user, never
\* before registered_at, unless two of them overlapped: the time is taken before
\* the row is written, and the later writer may hold the earlier time
\* (register_user).
SeenIsLatest ==
  \A u \in DOMAIN users \ overlapped :
    users[u].seen = latest[u] /\ users[u].registered <= users[u].seen
=============================================================================
