----------------------------- MODULE PubSubProofs -----------------------------
(***************************************************************************)
(* PubSub.  For every set of clients, channels and argument vectors, the   *)
(* two indexes of PubSubManager stay each other's inverse without empty    *)
(* entries, and the clean-up after a disconnect leaves no trace of the     *)
(* socket number.  Every step removes a set of pairs that is a product of  *)
(* clients and channels from both indexes, or adds one to both; the lemmas *)
(* EraseAgrees and InsertAgrees say so once for all actions.               *)
(***************************************************************************)
EXTENDS SubscriptionsRefinement, SequenceTheorems, FiniteSetTheorems, TLAPS

\* The invariant is inductive as it stands.
Inv == TypeOK /\ IndexesAgree

\* erase() under a set of keys returns an index again and takes exactly the
\* named pairs away.
LEMMA EraseIndex ==
    ASSUME NEW D, NEW R, NEW f, IsIndex(f, D, R), NEW K, NEW E
    PROVE  /\ IsIndex(EraseUnder(f, K, E), D, R)
           /\ \A k : At(EraseUnder(f, K, E), k) = IF k \in K THEN At(f, k) \ E ELSE At(f, k)
<1>1. DOMAIN EraseUnder(f, K, E) \subseteq DOMAIN f
  BY DEF EraseUnder
<1>2. ASSUME NEW k \in DOMAIN EraseUnder(f, K, E)
      PROVE  EraseUnder(f, K, E)[k] \in (SUBSET R) \ {{}}
  BY <1>2 DEF EraseUnder, IsIndex
<1>3. IsIndex(EraseUnder(f, K, E), D, R)
  <2>1. EraseUnder(f, K, E) =
            [k \in DOMAIN EraseUnder(f, K, E) |-> EraseUnder(f, K, E)[k]]
    BY DEF EraseUnder
  <2> QED BY <2>1, <1>1, <1>2 DEF IsIndex
<1>4. ASSUME NEW k
      PROVE  At(EraseUnder(f, K, E), k) = IF k \in K THEN At(f, k) \ E ELSE At(f, k)
  BY Zenon DEF EraseUnder, At
<1> QED BY <1>3, <1>4

\* insert() of a non-empty set under a set of keys returns an index again and
\* adds exactly the named pairs.
LEMMA InsertIndex ==
    ASSUME NEW D, NEW R, NEW f, IsIndex(f, D, R),
           NEW K \in SUBSET D, NEW E \in SUBSET R, E # {}
    PROVE  /\ IsIndex(InsertUnder(f, K, E), D, R)
           /\ \A k : At(InsertUnder(f, K, E), k) = IF k \in K THEN At(f, k) \cup E ELSE At(f, k)
<1>1. DOMAIN InsertUnder(f, K, E) = DOMAIN f \cup K
  BY DEF InsertUnder
<1>2. ASSUME NEW k \in DOMAIN f \cup K
      PROVE  InsertUnder(f, K, E)[k] \in (SUBSET R) \ {{}}
  <2>1. At(f, k) \in SUBSET R
    BY DEF IsIndex, At
  <2>2. k \notin K => At(f, k) # {}
    BY DEF IsIndex, At
  <2> QED BY <2>1, <2>2 DEF InsertUnder
<1>3. IsIndex(InsertUnder(f, K, E), D, R)
  <2>1. InsertUnder(f, K, E) = [k \in DOMAIN f \cup K |-> InsertUnder(f, K, E)[k]]
    BY DEF InsertUnder
  <2>2. DOMAIN f \cup K \subseteq D
    BY DEF IsIndex
  <2> QED BY <2>1, <2>2, <1>1, <1>2 DEF IsIndex
<1>4. ASSUME NEW k
      PROVE  At(InsertUnder(f, K, E), k) = IF k \in K THEN At(f, k) \cup E ELSE At(f, k)
  BY Zenon DEF InsertUnder, At
<1> QED BY <1>3, <1>4

\* Erasing the same pairs from both indexes keeps the invariant.
LEMMA EraseAgrees ==
    ASSUME Inv, NEW C \in SUBSET Client, NEW H \in SUBSET Channel,
           channels' = EraseUnder(channels, H, C),
           client_channels' = EraseUnder(client_channels, C, H),
           sock' \in [Client -> {"ready", "full", "closed"}]
    PROVE  Inv'
<1>1. /\ IsIndex(channels', Channel, Client)
      /\ \A k : At(channels', k) = IF k \in H THEN At(channels, k) \ C ELSE At(channels, k)
  BY EraseIndex DEF Inv, TypeOK
<1>2. /\ IsIndex(client_channels', Client, Channel)
      /\ \A k : At(client_channels', k) =
                    IF k \in C THEN At(client_channels, k) \ H ELSE At(client_channels, k)
  BY EraseIndex DEF Inv, TypeOK
<1>3. ASSUME NEW c \in Client, NEW ch \in Channel
      PROVE  c \in At(channels', ch) <=> ch \in At(client_channels', c)
  BY <1>1, <1>2 DEF Inv, IndexesAgree
<1> QED BY <1>1, <1>2, <1>3 DEF Inv, TypeOK, IndexesAgree, At

\* Inserting the same pairs into both indexes keeps the invariant.
LEMMA InsertAgrees ==
    ASSUME Inv, NEW C \in SUBSET Client, C # {}, NEW H \in SUBSET Channel, H # {},
           channels' = InsertUnder(channels, H, C),
           client_channels' = InsertUnder(client_channels, C, H),
           UNCHANGED sock
    PROVE  Inv'
<1>1. /\ IsIndex(channels', Channel, Client)
      /\ \A k : At(channels', k) = IF k \in H THEN At(channels, k) \cup C ELSE At(channels, k)
  BY InsertIndex DEF Inv, TypeOK
<1>2. /\ IsIndex(client_channels', Client, Channel)
      /\ \A k : At(client_channels', k) =
                    IF k \in C THEN At(client_channels, k) \cup H ELSE At(client_channels, k)
  BY InsertIndex DEF Inv, TypeOK
<1>3. ASSUME NEW c \in Client, NEW ch \in Channel
      PROVE  c \in At(channels', ch) <=> ch \in At(client_channels', c)
  BY <1>1, <1>2 DEF Inv, IndexesAgree
<1> QED BY <1>1, <1>2, <1>3 DEF Inv, TypeOK, IndexesAgree, At

\* A client's channels are channels.
LEMMA HeldType ==
    ASSUME Inv, NEW c
    PROVE  At(client_channels, c) \in SUBSET Channel
BY DEF Inv, TypeOK, IsIndex, At

\* The arguments of SUBSCRIBE name at least one channel.
LEMMA ArgsType ==
    ASSUME NEW chs \in ChannelArgs
    PROVE  Range(chs) \in SUBSET Channel /\ Range(chs) # {}
<1>1. chs \in Seq(Channel) /\ chs # <<>>
  BY PubSubAssumption
<1>2. 1 \in DOMAIN chs /\ \A i \in DOMAIN chs : chs[i] \in Channel
  BY <1>1
<1> QED BY <1>2 DEF Range

\* Erasing a client's own channels empties its entry, which goes: that is what
\* client_disconnected() does by erasing the entry.
LEMMA EraseOwn ==
    ASSUME Inv, NEW c
    PROVE  EraseUnder(client_channels, {c}, At(client_channels, c)) =
               Restrict(client_channels, DOMAIN client_channels \ {c})
BY DEF EraseUnder, Restrict, At

-----------------------------------------------------------------------------
\* Every step of the PubSubManager, and of the sockets, keeps the invariant.
LEMMA NextInv == Inv /\ [Next]_vars => Inv'
<1> SUFFICES ASSUME Inv, [Next]_vars PROVE Inv'
  OBVIOUS
<1> USE DEF indexes
<1>sock. sock \in [Client -> {"ready", "full", "closed"}]
  BY DEF Inv, TypeOK
<1>same. ASSUME UNCHANGED indexes, sock' \in [Client -> {"ready", "full", "closed"}]
         PROVE  Inv'
  BY <1>same DEF Inv, TypeOK, IndexesAgree, At
<1>1. ASSUME NEW c \in Client, NEW chs \in ChannelArgs, subscribe(c, chs) PROVE Inv'
  <2>1. Range(chs) \in SUBSET Channel /\ Range(chs) # {}
    BY ArgsType
  <2>2. /\ channels' = InsertUnder(channels, Range(chs), {c})
        /\ client_channels' = InsertUnder(client_channels, {c}, Range(chs))
        /\ UNCHANGED sock
    BY <1>1 DEF subscribe
  <2>3. {c} \in SUBSET Client /\ {c} # {}
    OBVIOUS
  <2> HIDE DEF indexes
  <2> QED BY <2>1, <2>2, <2>3, InsertAgrees
<1>2. ASSUME NEW c \in Client, NEW chs \in ChannelArgs, unsubscribe(c, chs) PROVE Inv'
  <2>1. Range(chs) \in SUBSET Channel
    BY ArgsType
  <2>2. /\ channels' = EraseUnder(channels, Range(chs), {c})
        /\ client_channels' = EraseUnder(client_channels, {c}, Range(chs))
        /\ UNCHANGED sock
    BY <1>2 DEF unsubscribe
  <2> QED BY <2>1, <2>2, <1>sock, EraseAgrees
<1>3. ASSUME NEW c \in Client, unsubscribe_all(c) PROVE Inv'
  <2>1. CASE At(client_channels, c) = {}
    <3>1. UNCHANGED indexes /\ UNCHANGED sock
      BY <1>3, <2>1 DEF unsubscribe_all
    <3> QED BY <3>1, <1>sock, <1>same
  <2>2. CASE At(client_channels, c) # {}
    <3>1. /\ channels' = EraseUnder(channels, At(client_channels, c), {c})
          /\ client_channels' = EraseUnder(client_channels, {c}, At(client_channels, c))
          /\ UNCHANGED sock
      BY <1>3, <2>2 DEF unsubscribe_all
    <3> QED BY <3>1, <1>sock, HeldType, EraseAgrees
  <2> QED BY <2>1, <2>2
<1>4. ASSUME NEW c \in Client, client_disconnected(c) PROVE Inv'
  <2>1. /\ channels' = EraseUnder(channels, At(client_channels, c), {c})
        /\ client_channels' = EraseUnder(client_channels, {c}, At(client_channels, c))
    BY <1>4, EraseOwn DEF client_disconnected
  <2>2. sock' \in [Client -> {"ready", "full", "closed"}]
    BY <1>4, <1>sock DEF client_disconnected
  <2> QED BY <2>1, <2>2, HeldType, EraseAgrees
<1>5. ASSUME NEW c \in Client, NEW state \in {"ready", "full", "closed"}, PeerChanges(c, state)
      PROVE  Inv'
  BY <1>5, <1>sock, <1>same DEF PeerChanges
<1>6. ASSUME NEW ch \in Channel, NEW failed \in SUBSET Client, publish(ch, failed) PROVE Inv'
  <2>1. /\ channels' = EraseUnder(channels, {ch}, failed)
        /\ client_channels' = EraseUnder(client_channels, failed, {ch})
        /\ UNCHANGED sock
    BY <1>6 DEF publish
  <2> QED BY <2>1, <1>sock, EraseAgrees
<1>7. CASE \/ \E c \in Client : is_subscribed(c)
           \/ active_channel_count \/ total_subscription_count
           \/ UNCHANGED vars
  BY <1>7, <1>sock, <1>same
     DEF is_subscribed, active_channel_count, total_subscription_count, vars
<1> QED BY <1>1, <1>2, <1>3, <1>4, <1>5, <1>6, <1>7 DEF Next

\* The two indexes agree and keep no empty entry, in every reachable state and
\* for any clients, channels and arguments.
THEOREM IndexesAlwaysAgree == Spec => [](TypeOK /\ IndexesAgree)
<1>1. Init => Inv
  BY DEF Init, Inv, TypeOK, IsIndex, IndexesAgree, At
<1> QED BY <1>1, NextInv, PTL DEF Spec, Inv

\* The clean-up after a disconnect finds every channel of the client through
\* the reverse index, because the indexes agree.
THEOREM DisconnectLeavesNothing == Spec => []DisconnectForgets
<1>1. Init => DisconnectForgets
  BY DEF Init, DisconnectForgets, At
<1>2. ASSUME Inv, DisconnectForgets, [Next]_vars PROVE DisconnectForgets'
  <2> SUFFICES ASSUME NEW c \in Client, reply' = <<"client_disconnected", c>>,
                      NEW ch \in Channel
               PROVE  c \notin At(channels', ch)
    BY DEF DisconnectForgets, At
  <2>1. ASSUME NEW d \in Client, client_disconnected(d) PROVE c \notin At(channels', ch)
    <3>1. d = c
      BY <2>1 DEF client_disconnected, Returns
    <3>2. At(channels', ch) = IF ch \in At(client_channels, c)
                              THEN At(channels, ch) \ {c} ELSE At(channels, ch)
      <4> DEFINE held == At(client_channels, c)
      <4>1. channels' = EraseUnder(channels, held, {c})
        BY <2>1, <3>1 DEF client_disconnected
      <4> HIDE DEF held
      <4>2. At(channels', ch) = IF ch \in held THEN At(channels, ch) \ {c} ELSE At(channels, ch)
        BY <4>1, Zenon DEF EraseUnder, At
      <4> QED BY <4>2 DEF held
    <3> QED BY <3>2, <1>2 DEF Inv, IndexesAgree
  <2>2. ASSUME reply' = reply, UNCHANGED indexes PROVE c \notin At(channels', ch)
    <3>1. c \notin At(channels, ch)
      BY <2>2, <1>2 DEF DisconnectForgets
    <3> QED BY <3>1, <2>2 DEF indexes
  <2>3. ASSUME NEW op, NEW result, Returns(op, result), op # "client_disconnected" PROVE FALSE
    BY <2>3 DEF Returns
  <2>4. CASE UNCHANGED vars
    BY <2>4, <2>2 DEF vars, indexes
  <2>5. ASSUME NEW d \in Client, NEW state \in {"ready", "full", "closed"}, PeerChanges(d, state)
        PROVE  c \notin At(channels', ch)
    BY <2>5, <2>2 DEF PeerChanges
  <2>6. ASSUME NEW d \in Client, NEW chs \in ChannelArgs, subscribe(d, chs) \/ unsubscribe(d, chs)
        PROVE  FALSE
    BY <2>6, <2>3 DEF subscribe, unsubscribe
  <2>7. ASSUME NEW d \in Client, unsubscribe_all(d) \/ is_subscribed(d) PROVE FALSE
    BY <2>7, <2>3 DEF unsubscribe_all, is_subscribed
  <2>8. ASSUME NEW h \in Channel, NEW failed \in SUBSET Client, publish(h, failed) PROVE FALSE
    BY <2>8, <2>3 DEF publish
  <2>9. CASE active_channel_count \/ total_subscription_count
    BY <2>9, <2>3 DEF active_channel_count, total_subscription_count
  <2> QED BY <1>2, <2>1, <2>4, <2>5, <2>6, <2>7, <2>8, <2>9 DEF Next
<1>3. Spec => []Inv
  BY IndexesAlwaysAgree, PTL DEF Inv
<1> QED BY <1>1, <1>2, <1>3, PTL DEF Spec

\* Both indexes are well typed and keep no empty entry.
THEOREM WellTyped == Spec => []TypeOK
BY IndexesAlwaysAgree, PTL

-----------------------------------------------------------------------------
(* The two indexes implement the relation of Subscriptions.  That they      *)
(* agree is what makes an operation that reads one of them answer for the   *)
(* relation.                                                                *)

\* What the indexes say, as a relation.
Pairs == {s \in Client \X Channel : s[1] \in At(channels, s[2])}

\* Finitely many clients hold finitely many subscriptions each, however many
\* clients and channels there are.
HeldFinite ==
    /\ IsFiniteSet(DOMAIN client_channels)
    /\ \A c \in Client : IsFiniteSet(At(client_channels, c))

\* The channels named by one command are finitely many.
LEMMA ArgsFinite ==
    ASSUME NEW chs \in ChannelArgs
    PROVE  IsFiniteSet(Range(chs))
<1>1. chs \in Seq(Channel)
  BY PubSubAssumption
<1>2. DOMAIN chs = 1 .. Len(chs) /\ Len(chs) \in Nat
  BY <1>1
<1>3. IsFiniteSet(DOMAIN chs)
  BY <1>2, FS_Interval
<1>4. chs \in Surjection(DOMAIN chs, Range(chs))
  BY <1>1 DEF Surjection, Range
<1> QED BY <1>3, <1>4, FS_Surjection

\* A command adds finitely many subscriptions; all else takes some away.
LEMMA NextFinite == Inv /\ HeldFinite /\ [Next]_vars => HeldFinite'
<1> SUFFICES ASSUME Inv, HeldFinite, [Next]_vars PROVE HeldFinite'
  OBVIOUS
<1> DEFINE Finite(cc) == /\ IsFiniteSet(DOMAIN cc)
                         /\ \A c \in Client : IsFiniteSet(At(cc, c))
<1>0. Finite(client_channels) /\ (HeldFinite' <=> Finite(client_channels'))
  BY DEF HeldFinite, At
<1>1. ASSUME NEW d \in Client, NEW chs \in ChannelArgs, subscribe(d, chs)
      PROVE  Finite(client_channels')
  <2>1. ASSUME NEW c \in Client PROVE IsFiniteSet(At(client_channels', c))
    <3>1. At(client_channels', c) =
              IF c = d THEN At(client_channels, c) \cup Range(chs) ELSE At(client_channels, c)
      BY <1>1, Zenon DEF subscribe, InsertUnder, At
    <3>2. IsFiniteSet(At(client_channels, c) \cup Range(chs))
      BY <1>0, ArgsFinite, FS_Union, Zenon
    <3> QED BY <3>1, <3>2, <1>0
  <2>2. DOMAIN client_channels' = DOMAIN client_channels \cup {d}
    BY <1>1 DEF subscribe, InsertUnder
  <2>3. IsFiniteSet(DOMAIN client_channels \cup {d})
    BY <1>0, FS_AddElement
  <2> QED BY <2>1, <2>2, <2>3
<1>2. ASSUME NEW K, NEW E, client_channels' = EraseUnder(client_channels, K, E)
      PROVE  Finite(client_channels')
  <2>1. ASSUME NEW c \in Client PROVE IsFiniteSet(At(client_channels', c))
    <3>1. At(client_channels', c) \in SUBSET At(client_channels, c)
      BY <1>2 DEF EraseUnder, At
    <3> QED BY <3>1, <1>0, FS_Subset
  <2>2. DOMAIN client_channels' \in SUBSET DOMAIN client_channels
    BY <1>2 DEF EraseUnder
  <2>3. IsFiniteSet(DOMAIN client_channels')
    BY <1>0, <2>2, FS_Subset
  <2> QED BY <2>1, <2>3
<1> HIDE DEF Finite
<1>3. ASSUME UNCHANGED client_channels
      PROVE  Finite(client_channels')
  BY <1>3, <1>0
<1>4. ASSUME NEW d \in Client, client_disconnected(d)
      PROVE  Finite(client_channels')
  BY <1>4, <1>2, EraseOwn DEF client_disconnected
<1>5. ASSUME NEW d \in Client, unsubscribe_all(d)
      PROVE  Finite(client_channels')
  BY <1>5, <1>2, <1>3 DEF unsubscribe_all, indexes
<1>6. ASSUME NEW d \in Client, NEW chs \in ChannelArgs, unsubscribe(d, chs)
      PROVE  Finite(client_channels')
  BY <1>6, <1>2 DEF unsubscribe
<1>7. ASSUME NEW ch \in Channel, NEW failed \in SUBSET Client, publish(ch, failed)
      PROVE  Finite(client_channels')
  BY <1>7, <1>2 DEF publish
<1>8. CASE \/ \E d \in Client : is_subscribed(d)
           \/ \E d \in Client, state \in {"ready", "full", "closed"} : PeerChanges(d, state)
           \/ active_channel_count \/ total_subscription_count \/ UNCHANGED vars
  BY <1>8, <1>3, <1>0
     DEF is_subscribed, PeerChanges, active_channel_count, total_subscription_count,
         indexes, vars
<1> QED BY <1>0, <1>1, <1>4, <1>5, <1>6, <1>7, <1>8 DEF Next

\* Either index gives the client's side and the channel's side of the relation.
LEMMA HeldIsIndexed ==
    ASSUME Inv
    PROVE  /\ \A c \in Client : Subs!Held(c) = At(client_channels, c)
           /\ \A ch \in Channel : Subs!Hearing(ch) = At(channels, ch)
<1>1. ASSUME NEW c \in Client PROVE Subs!Held(c) = At(client_channels, c)
  BY HeldType DEF Inv, IndexesAgree, Subs!Held
<1>2. ASSUME NEW ch \in Channel PROVE Subs!Hearing(ch) = At(channels, ch)
  <2>1. At(channels, ch) \in SUBSET Client
    BY DEF Inv, TypeOK, IsIndex, At
  <2> QED BY <2>1 DEF Subs!Hearing
<1> QED BY <1>1, <1>2

\* The channels named up to the i-th argument.
LEMMA NamedSoFar ==
    ASSUME NEW chs \in ChannelArgs, NEW i \in DOMAIN chs
    PROVE  Range(SubSeq(chs, 1, i)) = {chs[j] : j \in 1 .. i}
<1>1. chs \in Seq(Channel)
  BY PubSubAssumption
<1>2. i \in 1 .. Len(chs) /\ Len(chs) \in Nat
  BY <1>1
<1>3. SubSeq(chs, 1, i) = [j \in 1 .. i |-> chs[j]]
  BY <1>1, <1>2
<1> QED BY <1>3, Zenon DEF Range

\* The helpers are the same ones in the abstract module.
LEMMA SameHelpers ==
    /\ \A S : Subs!Cardinality(S) = Cardinality(S)
    /\ \A S : Subs!Range(S) = Range(S)
    /\ \A S : Subs!Max(S) = Max(S)
<1>1. ASSUME NEW S PROVE Subs!Cardinality(S) = Cardinality(S)
  BY DEF Subs!Cardinality, Cardinality
<1>2. ASSUME NEW S PROVE Subs!Range(S) = Range(S)
  BY DEF Subs!Range, Range
<1>3. ASSUME NEW S PROVE Subs!Max(S) = Max(S)
  BY DEF Subs!Max, Max
<1> QED BY <1>1, <1>2, <1>3

\* The greater of two integers.
LEMMA MaxOfTwo ==
    ASSUME NEW a \in Int, NEW b \in Int
    PROVE  Max({a, b}) = IF a >= b THEN a ELSE b
<1> DEFINE m == IF a >= b THEN a ELSE b
<1>1. m \in {a, b} /\ \A y \in {a, b} : m >= y
  OBVIOUS
<1>2. \A x \in {a, b} : (\A y \in {a, b} : x >= y) => x = m
  OBVIOUS
<1> QED BY <1>1, <1>2 DEF Max

\* Erasing the same product of clients and channels from both indexes takes
\* it from the relation.
LEMMA ErasePairs ==
    ASSUME Inv, NEW C, NEW H, channels' = EraseUnder(channels, H, C)
    PROVE  Pairs' = Pairs \ (C \X H)
<1>1. \A k : At(channels', k) = IF k \in H THEN At(channels, k) \ C ELSE At(channels, k)
  BY EraseIndex DEF Inv, TypeOK
<1>2. Pairs' = {s \in Client \X Channel : s[1] \in At(channels', s[2])}
  BY DEF Pairs, At
<1> HIDE DEF At
<1> QED BY <1>1, <1>2 DEF Pairs

-----------------------------------------------------------------------------
(* The total.  A sum over a set adds one element after the other; here it   *)
(* counts the pairs of an index.                                            *)

\* The pairs an index has under a set of keys.
Under(index, keys) == UNION {{k} \X index[k] : k \in keys}

Picked(s) == CHOOSE x \in s : TRUE

\* h adds up the sizes of what the index has under each set of keys.
AddsUp(h, index) ==
    h = [s \in SUBSET DOMAIN index |->
            IF s = {} THEN 0 ELSE Cardinality(index[Picked(s)]) + h[s \ {Picked(s)}]]

\* The code's total is the solution of a recursion over sets of keys.
LEMMA SumAddsUp ==
    ASSUME NEW index
    PROVE  MapThenSumSet(LAMBDA k : Cardinality(index[k]), DOMAIN index) =
               (CHOOSE h : AddsUp(h, index))[DOMAIN index]
BY DEF AddsUp, Picked, MapThenSumSet, MapThenFoldSet

\* Taking a key away takes its pairs away.
LEMMA UnderOneLess ==
    ASSUME NEW index, IsFiniteSet(DOMAIN index), \A k \in DOMAIN index : IsFiniteSet(index[k]),
           NEW s \in SUBSET DOMAIN index, NEW x \in s
    PROVE  Cardinality(Under(index, s)) =
               Cardinality(index[x]) + Cardinality(Under(index, s \ {x}))
<1> DEFINE here == {x} \X index[x]
           rest == Under(index, s \ {x})
<1>1. IsFiniteSet(index[x]) /\ IsFiniteSet({x}) /\ Cardinality({x}) = 1
  BY FS_Singleton, Zenon
<1>2. Cardinality(index[x]) \in Nat
  BY <1>1, FS_CardinalityType
<1>3. IsFiniteSet(here) /\ Cardinality(here) = Cardinality(index[x])
  <2>1. IsFiniteSet(here) /\ Cardinality(here) = Cardinality({x}) * Cardinality(index[x])
    BY <1>1, FS_Product
  <2> QED BY <1>1, <1>2, <2>1
<1>4. IsFiniteSet(rest)
  <2> DEFINE t == s \ {x}
             parts == {{k} \X index[k] : k \in t}
             part == [k \in t |-> {k} \X index[k]]
  <2>1. IsFiniteSet(t)
    BY FS_Subset
  <2>2. part \in Surjection(t, parts)
    BY Zenon DEF Surjection
  <2>3. IsFiniteSet(parts)
    <3> HIDE DEF t, parts, part
    <3> QED BY <2>1, <2>2, FS_Surjection
  <2>4. ASSUME NEW p \in parts PROVE IsFiniteSet(p)
    <3>1. PICK k \in t : p = {k} \X index[k]
      OBVIOUS
    <3>2. IsFiniteSet({k}) /\ IsFiniteSet(index[k])
      BY FS_Singleton, Zenon
    <3> QED BY <3>1, <3>2, FS_Product
  <2>5. IsFiniteSet(UNION parts)
    <3> HIDE DEF parts
    <3> QED BY <2>3, <2>4, FS_UNION
  <2> QED BY <2>5 DEF Under
<1>5. Under(index, s) = here \cup rest
  BY DEF Under
<1>6. here \cap rest = {}
  BY DEF Under
<1>7. Cardinality(rest) \in Nat
  BY <1>4, FS_CardinalityType
<1> HIDE DEF here, rest
<1>8. Cardinality(here \cup rest) = Cardinality(here) + Cardinality(rest) - Cardinality({})
  BY <1>3, <1>4, <1>6, FS_Union
<1>9. Cardinality({}) = 0
  BY FS_EmptySet
<1>10. Cardinality(Under(index, s)) = Cardinality(index[x]) + Cardinality(rest)
  BY <1>2, <1>3, <1>5, <1>7, <1>8, <1>9
<1> QED BY <1>10 DEF rest

\* Whatever order the sum takes, it is the number of pairs.
LEMMA SumCountsPairs ==
    ASSUME NEW index, IsFiniteSet(DOMAIN index), \A k \in DOMAIN index : IsFiniteSet(index[k])
    PROVE  MapThenSumSet(LAMBDA k : Cardinality(index[k]), DOMAIN index) =
               Cardinality(Under(index, DOMAIN index))
<1> DEFINE D == DOMAIN index
           count == [s \in SUBSET D |-> Cardinality(Under(index, s))]
           h == CHOOSE g : AddsUp(g, index)
<1>1. \A s \in SUBSET D : s # {} => Picked(s) \in s /\ s \ {Picked(s)} \in SUBSET D
  BY DEF Picked
<1>2. ASSUME NEW s \in SUBSET D, s # {}
      PROVE  Cardinality(Under(index, s)) =
                 Cardinality(index[Picked(s)]) + Cardinality(Under(index, s \ {Picked(s)}))
  BY <1>1, <1>2, UnderOneLess
<1>3. Cardinality(Under(index, {})) = 0
  BY FS_EmptySet DEF Under
<1>4. AddsUp(count, index)
  <2>1. ASSUME NEW s \in SUBSET D
        PROVE  count[s] = IF s = {} THEN 0
                          ELSE Cardinality(index[Picked(s)]) + count[s \ {Picked(s)}]
    BY <1>1, <1>2, <1>3, Zenon
  <2> QED BY <2>1, Zenon DEF AddsUp
<1>5. AddsUp(h, index)
  BY <1>4
<1> HIDE DEF h
<1>6. \A s \in SUBSET D :
          h[s] = IF s = {} THEN 0 ELSE Cardinality(index[Picked(s)]) + h[s \ {Picked(s)}]
  BY <1>5, Zenon DEF AddsUp
<1> DEFINE Wrong == {s \in SUBSET D : h[s] # count[s]}
<1>7. Wrong = {}
  <2> SUFFICES ASSUME Wrong # {} PROVE FALSE
    OBVIOUS
  <2>1. PICK s \in Wrong : \A t \in Wrong : ~(<<t, s>> \in StrictSubsetOrdering(D))
    <3>1. IsWellFoundedOn(StrictSubsetOrdering(D), FiniteSubsetsOf(D))
      BY FS_StrictSubsetOrderingWellFounded
    <3>2. FiniteSubsetsOf(D) = SUBSET D
      BY FS_FiniteSubsetsOfFinite
    <3>3. Wrong \subseteq SUBSET D
      OBVIOUS
    <3> HIDE DEF Wrong
    <3> QED BY <3>1, <3>2, <3>3, WFMin
  <2>2. s # {}
    BY <1>3, <1>6, <2>1, Zenon
  <2> DEFINE t == s \ {Picked(s)}
  <2>3. <<t, s>> \in StrictSubsetOrdering(D)
    BY <1>1, <2>1, <2>2 DEF StrictSubsetOrdering
  <2>4. t \in SUBSET D /\ h[t] = count[t]
    BY <1>1, <2>1, <2>2, <2>3, Zenon
  <2>5. h[s] = Cardinality(index[Picked(s)]) + h[t]
    BY <1>6, <2>1, <2>2
  <2>6. count[s] = Cardinality(index[Picked(s)]) + count[t]
    BY <1>1, <1>2, <2>1, <2>2
  <2> QED BY <2>1, <2>4, <2>5, <2>6
<1>8. h[D] = Cardinality(Under(index, D))
  BY <1>7, Zenon
<1> QED BY <1>8, SumAddsUp, Zenon DEF h

\* total_subscription_count() counts the relation.
LEMMA TotalIsCounted ==
    ASSUME Inv, HeldFinite
    PROVE  MapThenSumSet(LAMBDA c : Cardinality(client_channels[c]), DOMAIN client_channels) =
               Cardinality(Pairs)
<1>1. \A c \in DOMAIN client_channels : c \in Client /\ client_channels[c] = At(client_channels, c)
  BY DEF Inv, TypeOK, IsIndex, At
<1>2. \A c \in DOMAIN client_channels : IsFiniteSet(client_channels[c])
  BY <1>1 DEF HeldFinite
<1>3. MapThenSumSet(LAMBDA c : Cardinality(client_channels[c]), DOMAIN client_channels) =
          Cardinality(Under(client_channels, DOMAIN client_channels))
  BY <1>2, SumCountsPairs, Zenon DEF HeldFinite
<1>4. Under(client_channels, DOMAIN client_channels) = Pairs
  <2>1. ASSUME NEW c \in Client, NEW ch \in Channel
        PROVE  <<c, ch>> \in Pairs <=> c \in DOMAIN client_channels /\ ch \in client_channels[c]
    BY DEF Inv, IndexesAgree, Pairs, At
  <2>2. \A c \in DOMAIN client_channels : c \in Client /\ client_channels[c] \subseteq Channel
    BY DEF Inv, TypeOK, IsIndex
  <2>3. Pairs \subseteq Client \X Channel
    BY DEF Pairs
  <2> QED BY <2>1, <2>2, <2>3 DEF Under
<1> QED BY <1>3, <1>4

-----------------------------------------------------------------------------
(* The refinement *)

\* Each step of the two indexes is a step of the relation with the same answer,
\* or one it does not see.
LEMMA NextRefines ==
    Inv /\ HeldFinite /\ [Next]_vars => [Subs!Next]_(Subs!vars)
<1> SUFFICES ASSUME Inv, HeldFinite, [Next]_vars
             PROVE  [Subs!Next]_(Subs!vars)
  OBVIOUS
<1>pairs. Subs!vars = <<Pairs, reply>>
  BY DEF Subs!vars, Pairs
<1>same. ASSUME UNCHANGED channels PROVE Pairs' = Pairs
  BY <1>same DEF Pairs, At
<1>1. ASSUME NEW c \in Client, NEW chs \in ChannelArgs, subscribe(c, chs)
      PROVE  Subs!Subscribe(c, chs)
  <2>1. Range(chs) \in SUBSET Channel
    BY ArgsType
  <2>2. Pairs' = Pairs \cup ({c} \X Range(chs))
    <3>1. \A k : At(channels', k) =
                   IF k \in Range(chs) THEN At(channels, k) \cup {c} ELSE At(channels, k)
      BY <1>1, Zenon DEF subscribe, InsertUnder, At
    <3>2. Pairs' = {s \in Client \X Channel : s[1] \in At(channels', s[2])}
      BY DEF Pairs, At
    <3> QED BY <3>1, <3>2, <2>1 DEF Pairs
  <2>3. \A i \in DOMAIN chs :
            At(client_channels, c) \cup Range(SubSeq(chs, 1, i)) =
                Subs!Held(c) \cup {chs[j] : j \in 1 .. i}
    BY HeldIsIndexed, NamedSoFar
  <2>4. reply' = <<"subscribe",
            [i \in DOMAIN chs |-> Cardinality(Subs!Held(c) \cup {chs[j] : j \in 1 .. i})]>>
    BY <1>1, <2>3 DEF subscribe, Returns
  <2> QED BY <2>2, <2>4, SameHelpers DEF Subs!Subscribe, Subs!Answers, Pairs
<1>2. ASSUME NEW c \in Client, NEW chs \in ChannelArgs, unsubscribe(c, chs)
      PROVE  Subs!Unsubscribe(c, chs)
  <2>1. Pairs' = Pairs \ ({c} \X Range(chs))
    BY <1>2, ErasePairs DEF unsubscribe
  <2>2. \A i \in DOMAIN chs :
            At(client_channels, c) \ Range(SubSeq(chs, 1, i)) =
                Subs!Held(c) \ {chs[j] : j \in 1 .. i}
    BY HeldIsIndexed, NamedSoFar
  <2>3. reply' = <<"unsubscribe",
            [i \in DOMAIN chs |-> Cardinality(Subs!Held(c) \ {chs[j] : j \in 1 .. i})]>>
    BY <1>2, <2>2 DEF unsubscribe, Returns
  <2> QED BY <2>1, <2>3, SameHelpers DEF Subs!Unsubscribe, Subs!Answers, Pairs
<1>3. ASSUME NEW c \in Client, unsubscribe_all(c) PROVE Subs!UnsubscribeAll(c)
  <2> DEFINE held == At(client_channels, c)
             n    == Cardinality(held)
  <2>1. n \in Nat /\ (n = 0 <=> held = {})
    BY FS_CardinalityType, FS_EmptySet DEF HeldFinite
  <2>2. Subs!Held(c) = held
    BY HeldIsIndexed
  <2>3. \A ch \in Channel : <<c, ch>> \in Pairs => ch \in held
    BY DEF Inv, IndexesAgree, Pairs
  <2>4. Pairs' = Pairs \ ({c} \X Channel)
    <3>1. CASE held = {}
      <4>1. Pairs' = Pairs
        BY <1>3, <3>1, <1>same DEF unsubscribe_all, indexes
      <4> QED BY <4>1, <3>1, <2>3 DEF Pairs
    <3>2. CASE held # {}
      <4>1. Pairs' = Pairs \ ({c} \X held)
        BY <1>3, <3>2, ErasePairs DEF unsubscribe_all
      <4>2. held \in SUBSET Channel
        BY HeldType
      <4> QED BY <4>1, <4>2, <2>3 DEF Pairs
    <3> QED BY <3>1, <3>2
  <2>5. reply' = <<"unsubscribe", [i \in 1 .. Max({1, n}) |-> Max({0, n - i})]>>
    <3>1. CASE held = {}
      <4>1. n = 0 /\ Max({1, n}) = 1
        BY <2>1, <3>1, MaxOfTwo
      <4>2. \A i \in 1 .. 1 : Max({0, n - i}) = 0
        BY <4>1, MaxOfTwo
      <4>3. reply' = <<"unsubscribe", <<0>> >>
        BY <1>3, <3>1 DEF unsubscribe_all, Returns
      <4>4. <<0>> = [i \in 1 .. 1 |-> 0]
        OBVIOUS
      <4> QED BY <4>1, <4>2, <4>3, <4>4
    <3>2. CASE held # {}
      <4> HIDE DEF n, held
      <4>1. n >= 1
        BY <2>1, <3>2
      <4>2. Max({1, n}) = n
        BY <2>1, <4>1, MaxOfTwo
      <4>3. \A i \in 1 .. n : Max({0, n - i}) = n - i
        BY <2>1, MaxOfTwo
      <4>4. reply' = <<"unsubscribe", [i \in 1 .. n |-> n - i]>>
        BY <1>3, <3>2 DEF unsubscribe_all, Returns, n, held
      <4> QED BY <4>2, <4>3, <4>4
    <3> QED BY <3>1, <3>2, Zenon
  <2> QED BY <2>2, <2>4, <2>5, SameHelpers, Zenon DEF Subs!UnsubscribeAll, Subs!Answers, Pairs
<1>4. ASSUME NEW c \in Client, client_disconnected(c) PROVE Subs!ClientDisconnected(c)
  <2>1. Pairs' = Pairs \ ({c} \X At(client_channels, c))
    BY <1>4, ErasePairs DEF client_disconnected
  <2>2. \A ch \in Channel : <<c, ch>> \in Pairs => ch \in At(client_channels, c)
    BY DEF Inv, IndexesAgree, Pairs
  <2>3. Pairs' = Pairs \ ({c} \X Channel)
    BY <2>1, <2>2, HeldType DEF Pairs
  <2> QED BY <1>4, <2>3 DEF client_disconnected, Returns, Subs!ClientDisconnected, Subs!Answers, Pairs
<1>5. ASSUME NEW ch \in Channel, NEW failed \in SUBSET Client, publish(ch, failed)
      PROVE  Subs!Publish(ch)
  <2>1. Pairs' = Pairs \ (failed \X {ch})
    BY <1>5, ErasePairs DEF publish
  <2>2. Subs!Hearing(ch) = At(channels, ch)
    BY HeldIsIndexed
  <2>3. failed \in SUBSET Subs!Hearing(ch)
    BY <1>5, <2>2 DEF publish, SendsFail
  <2>4. reply' = <<"publish", Cardinality(Subs!Hearing(ch) \ failed)>>
    BY <1>5, <2>2 DEF publish, Returns
  <2> QED BY <2>1, <2>3, <2>4, SameHelpers, Zenon DEF Subs!Publish, Subs!Answers, Pairs
<1>6. ASSUME NEW c \in Client, is_subscribed(c) PROVE Subs!IsSubscribed(c)
  <2>1. Pairs' = Pairs
    BY <1>6, <1>same DEF is_subscribed, indexes
  <2> QED BY <1>6, <2>1, HeldIsIndexed
          DEF is_subscribed, Returns, Subs!IsSubscribed, Subs!Answers, Pairs
<1>7. ASSUME active_channel_count PROVE Subs!ActiveChannelCount
  <2>1. Pairs' = Pairs
    BY <1>7, <1>same DEF active_channel_count, indexes
  <2>2. DOMAIN channels = {ch \in Channel : Subs!Hearing(ch) # {}}
    <3>1. \A ch \in Channel : ch \in DOMAIN channels <=> At(channels, ch) # {}
      BY DEF Inv, TypeOK, IsIndex, At
    <3>2. DOMAIN channels \subseteq Channel
      BY DEF Inv, TypeOK, IsIndex
    <3> QED BY <3>1, <3>2, HeldIsIndexed
  <2> QED BY <1>7, <2>1, <2>2, SameHelpers
          DEF active_channel_count, Returns, Subs!ActiveChannelCount, Subs!Answers, Pairs
<1>total. ASSUME total_subscription_count PROVE Subs!TotalSubscriptionCount
  <2>1. Pairs' = Pairs
    BY <1>total, <1>same DEF total_subscription_count, indexes
  <2>2. reply' = <<"total_subscription_count", Cardinality(Pairs)>>
    BY <1>total, TotalIsCounted DEF total_subscription_count, Returns
  <2> QED BY <2>1, <2>2, SameHelpers DEF Subs!TotalSubscriptionCount, Subs!Answers, Pairs
<1>8. ASSUME NEW c \in Client, NEW state \in {"ready", "full", "closed"}, PeerChanges(c, state)
      PROVE  UNCHANGED Subs!vars
  BY <1>8, <1>same, <1>pairs DEF PeerChanges, indexes, Subs!vars, Pairs
<1>9. CASE UNCHANGED vars
  BY <1>9, <1>same DEF vars, Subs!vars, Pairs
<1> QED BY <1>1, <1>2, <1>3, <1>4, <1>5, <1>6, <1>7, <1>total, <1>8, <1>9 DEF Next, Subs!Next

\* The two indexes behave as one relation between clients and channels, in
\* what they hold and in every answer they give, whichever index it is read
\* from (pubsub.cpp:8-183).
THEOREM IndexesImplementRelation == Spec => ImplementsSubscriptions
<1>1. Init => Inv /\ HeldFinite
  BY FS_EmptySet DEF Init, Inv, TypeOK, IsIndex, IndexesAgree, At, HeldFinite
<1>2. Init => Subs!Init
  BY DEF Init, Subs!Init, At
<1> QED BY <1>1, <1>2, NextInv, NextFinite, NextRefines, PTL
        DEF Spec, ImplementsSubscriptions, Subs!Spec

===============================================================================
