---------------------------- MODULE ExpiryThread ----------------------------
(***************************************************************************)
(* The background expiry thread of Database: its loop, the condition       *)
(* variable it sleeps on, and how main stops and joins it.  Of the maps    *)
(* only expiry_ matters here, together with what Database.tla leaves out:  *)
(* the order in which the hash map iterates over its entries.              *)
(***************************************************************************)
EXTENDS Lists

CONSTANTS
    Key,
    Ttls,           \* the TTLs, in ticks, that clients set
    MAX_SAMPLE      \* entries one scan looks at (20 in the code)

ASSUME ExpiryThreadAssumption ==
    /\ Ttls \subseteq Nat \ {0}
    /\ MAX_SAMPLE \in Nat \ {0}

VARIABLES
    expiry,         \* expiry_: keys with a TTL to the ticks left, 0 when expired
    order,          \* the iteration order of expiry_
    buckets,        \* how many entries its table takes without being rehashed
    running,        \* expiry_running_
    thread,         \* where expiry_loop is
    main            \* where the thread that starts and stops it is

data == <<expiry, order, buckets>>
threadVars == <<data, running, thread, main>>

ThreadInit ==
    /\ expiry = <<>> /\ order = <<>> /\ buckets = 0
    /\ running = FALSE /\ thread = "none" /\ main = "init"

\* The sequences that list a set, each entry once.
Listings(S) == Bijection(1 .. Cardinality(S), S)

\* The entries of a sequence that are not in S, in the order they have there.
Without(seq, S) ==
    LET kept[n \in 0 .. Len(seq)] ==
            IF n = 0 THEN <<>>
            ELSE IF seq[n] \in S THEN kept[n - 1] ELSE Append(kept[n - 1], seq[n])
    IN  kept[Len(seq)]

EraseKeys(S) ==
    /\ expiry' = Restrict(expiry, DOMAIN expiry \ S)
    /\ order' = Without(order, S)
    /\ UNCHANGED buckets

\* A new entry lands anywhere among the others.  One that is too many for the
\* table makes it grow, which may change the whole order; it never shrinks.
InsertKey(k) ==
    \/ /\ Len(order) < buckets
       /\ \E i \in 0 .. Len(order) :
             order' = SubSeq(order, 1, i) \o <<k>> \o SubSeq(order, i + 1, Len(order))
       /\ UNCHANGED buckets
    \/ /\ Len(order) = buckets
       /\ buckets' \in buckets + 1 .. Cardinality(Key)
       /\ order' \in Listings(DOMAIN expiry \cup {k})

-----------------------------------------------------------------------------
(* The main thread: clients are served between start and stop *)

start_expiry_thread ==
    /\ main = "init"
    /\ running' = TRUE /\ thread' = "loop" /\ main' = "serving"
    /\ UNCHANGED data

\* EXPIRE of a key that exists and is not expired.  A new deadline for an entry
\* that is there moves nothing.
ClientExpire(k, t) ==
    /\ main = "serving"
    /\ k \in DOMAIN expiry => expiry[k] > 0
    /\ expiry' = [x \in DOMAIN expiry \cup {k} |-> IF x = k THEN t ELSE expiry[x]]
    /\ IF k \in DOMAIN expiry THEN UNCHANGED <<order, buckets>> ELSE InsertKey(k)
    /\ UNCHANGED <<running, thread, main>>

\* Any command that erases an entry: DEL, SET, PERSIST, FLUSHDB, the last pop
\* of a list, or the lazy removal of an expired key that a client accesses.
ClientErase(k) ==
    /\ main = "serving" /\ k \in DOMAIN expiry
    /\ EraseKeys({k})
    /\ UNCHANGED <<running, thread, main>>

\* stop_expiry_thread clears the flag without holding expiry_cv_mutex_ ...
StopFlag ==
    /\ main = "serving" /\ running
    /\ running' = FALSE /\ main' = "notify"
    /\ UNCHANGED <<data, thread>>

\* ... and then notifies: only a thread that is already waiting is woken.
NotifyAll ==
    /\ main = "notify"
    /\ thread' = IF thread = "waiting" THEN "predicate" ELSE thread
    /\ main' = "join"
    /\ UNCHANGED <<data, running>>

Join ==
    /\ main = "join" /\ thread = "done"
    /\ main' = "stopped"
    /\ UNCHANGED <<data, running, thread>>

-----------------------------------------------------------------------------
(* expiry_loop *)

Goto(from, to) == thread = from /\ thread' = to /\ UNCHANGED <<running, main>>

LoopTest == Goto("loop", IF running THEN "predicate" ELSE "done") /\ UNCHANGED data

\* wait_for evaluates the predicate before it blocks and after every wakeup.
Predicate == Goto("predicate", IF running THEN "block" ELSE "awake") /\ UNCHANGED data

Block == Goto("block", "waiting") /\ UNCHANGED data

SpuriousWakeup == Goto("waiting", "predicate") /\ UNCHANGED data

\* Faulty form: wait() instead of wait_for().
Timeout_never == FALSE

\* The 100 ms of wait_for are over.
Timeout == Goto("waiting", "awake") /\ UNCHANGED data

FlagTest == Goto("awake", IF running THEN "scan" ELSE "done") /\ UNCHANGED data

\* The first MAX_SAMPLE entries in iteration order are looked at.
Sample == Range(SubSeq(order, 1, Min({MAX_SAMPLE, Len(order)})))

\* Faulty form: the comparison with the clock is the wrong way round.
Scan_reversed ==
    /\ Goto("scan", "loop")
    /\ EraseKeys({k \in Sample : expiry[k] > 0})

Scan ==
    /\ Goto("scan", "loop")
    /\ EraseKeys({k \in Sample : expiry[k] <= 0})

expiry_loop == LoopTest \/ Predicate \/ Block \/ Timeout \/ FlagTest \/ Scan

Tick ==
    /\ expiry' = [k \in DOMAIN expiry |-> IF expiry[k] > 0 THEN expiry[k] - 1 ELSE 0]
    /\ UNCHANGED <<order, buckets, running, thread, main>>

ThreadNext ==
    \/ start_expiry_thread \/ StopFlag \/ NotifyAll \/ Join
    \/ \E k \in Key : ClientErase(k) \/ \E t \in Ttls : ClientExpire(k, t)
    \/ expiry_loop \/ SpuriousWakeup \/ Tick

\* Both threads keep running and time passes.  wait_for computes its end once,
\* so spurious wakeups cannot put it off for ever: Timeout is strongly fair.
\* Clients owe nothing, and main may serve for ever.
Fairness ==
    /\ WF_threadVars(expiry_loop) /\ SF_threadVars(Timeout)
    /\ WF_threadVars(NotifyAll) /\ WF_threadVars(Join)
    /\ WF_threadVars(Tick)

ThreadSpec == ThreadInit /\ [][ThreadNext]_threadVars /\ Fairness

-----------------------------------------------------------------------------
(* Properties *)

\* A stop that has begun always ends with the thread joined, although the
\* notification can come between the predicate and the wait and be lost: then
\* the timeout of wait_for ends the wait.
StopEndsWithJoin == main = "notify" ~> main = "stopped"

\* A background scan "removes them, including keys that are never accessed
\* again" (README.md:458): while the server runs, no key stays in the maps for
\* ever once its deadline has passed.  The code does not promise that much: see
\* OnlyLiveEntriesStarve.
ExpiredKeysGoAway ==
    \A k \in Key :
        (k \in DOMAIN expiry /\ expiry[k] = 0)
            ~> (k \notin DOMAIN expiry \/ main # "serving")

\* The entries that a scan meets before k.
Ahead(k) == {order[i] : i \in {j \in DOMAIN order : \E p \in DOMAIN order : j < p /\ order[p] = k}}

\* What does hold of keys nobody accesses: an expired key stays in the maps for
\* ever only if again and again there are MAX_SAMPLE or more entries before it,
\* and again and again one of those is not expired.  So clients have to set or
\* renew deadlines without end; expired entries alone cannot keep it there,
\* since every scan takes those that it meets away (database.cpp:478-493).
OnlyLiveEntriesStarve ==
    \A k \in Key :
        <>[](k \in DOMAIN expiry /\ expiry[k] = 0 /\ main = "serving") =>
            /\ []<>(Cardinality(Ahead(k)) >= MAX_SAMPLE)
            /\ []<>(\E x \in Ahead(k) : expiry[x] > 0)

=============================================================================
