------------------------ MODULE AwaitableClientProofs ------------------------
(***************************************************************************)
(* Ownership of the synchronous clients, and where requests go, for any    *)
(* objects, URLs and heap.                                                 *)
(***************************************************************************)
EXTENDS AwaitableClient, TLAPS

\* The three copies of a URL agree, in destroyed and moved-from objects too.
UrlsAgree ==
  \A o \in Objects :
    /\ domain_[o] = extract_domain(base_url_[o])
    /\ sync_client_[o] # Null => heap[sync_client_[o]] = SyncClient(base_url_[o])

\* Inductive: the heap is what the objects own, and says what they say.
Inv == Ownership /\ UrlsAgree

-----------------------------------------------------------------------------

\* A client made in place of another at a free address keeps the heap in
\* one-to-one correspondence with the objects that own something.
LEMMA ReplaceOwns ==
  ASSUME Inv, NEW o \in Objects, NEW u \in Urls \cup {NoUrl}, NEW s \in Cells, Replace(o, u, s)
  PROVE  /\ sync_client_' \in [Objects -> Cells \cup {Null}]
         /\ heap' \in [DOMAIN heap' -> {SyncClient(v) : v \in Urls \cup {NoUrl}}]
         /\ OneOwner'
         /\ sync_client_'[o] # Null
         /\ heap'[sync_client_'[o]] = SyncClient(u)
         /\ \A p \in Objects \ {o} :
              /\ sync_client_'[p] = sync_client_[p]
              /\ sync_client_[p] # Null => heap'[sync_client_[p]] = heap[sync_client_[p]]
<1> USE DEF Inv, Ownership, TypeOK, OneOwner, Put, Free, Owned
<1>1. sync_client_' = [sync_client_ EXCEPT ![o] = s] /\ s \notin DOMAIN heap /\ s # Null
  BY AwaitableAssumption DEF Replace
<1>2. DOMAIN heap' = (DOMAIN heap \cup {s}) \ Owned(o)
  BY DEF Replace
<1>3. \A t \in DOMAIN heap' : heap'[t] = IF t = s THEN SyncClient(u) ELSE heap[t]
  BY <1>2 DEF Replace
<1>4. \A p \in Objects : sync_client_[p] # Null => sync_client_[p] \in DOMAIN heap
  OBVIOUS
<1>5. \A p \in Objects \ {o} : sync_client_'[p] = sync_client_[p]
  BY <1>1
<1>6. sync_client_'[o] = s
  BY <1>1
<1>7. sync_client_[o] # s
  BY <1>1, <1>4
<1>8. s \in DOMAIN heap'
  BY <1>2, <1>7
<1>9. \A p \in Objects \ {o} :
        sync_client_[p] # Null => sync_client_[p] \in DOMAIN heap' /\ sync_client_[p] # s
  BY <1>1, <1>2, <1>4
<1>10. OneOwner'
  <2>1. \A p, q \in Objects : sync_client_'[p] = sync_client_'[q] /\ p # q => sync_client_'[p] = Null
    BY <1>5, <1>6, <1>9
  <2>2. DOMAIN heap' = {sync_client_'[p] : p \in Objects} \ {Null}
    <3>1. DOMAIN heap' \subseteq {sync_client_'[p] : p \in Objects} \ {Null}
      <4> SUFFICES ASSUME NEW t \in DOMAIN heap', t # s
                   PROVE  t \in {sync_client_'[p] : p \in Objects} \ {Null}
        BY <1>1, <1>6
      <4>1. PICK p \in Objects : t = sync_client_[p] /\ t # Null
        BY <1>2
      <4>2. p # o
        BY <1>2, <4>1
      <4> QED BY <1>5, <4>1, <4>2
    <3>2. {sync_client_'[p] : p \in Objects} \ {Null} \subseteq DOMAIN heap'
      BY <1>5, <1>6, <1>8, <1>9
    <3> QED BY <3>1, <3>2
  <2> QED BY <2>1, <2>2
<1>11. heap' \in [DOMAIN heap' -> {SyncClient(v) : v \in Urls \cup {NoUrl}}]
  <2>1. \A t \in DOMAIN heap' : heap'[t] \in {SyncClient(v) : v \in Urls \cup {NoUrl}}
    BY <1>2, <1>3
  <2>2. heap' = [t \in DOMAIN heap' |-> heap'[t]]
    BY <1>2 DEF Replace
  <2> QED BY <2>1, <2>2
<1>12. sync_client_' \in [Objects -> Cells \cup {Null}]
  BY <1>1
<1> QED BY <1>1, <1>3, <1>5, <1>6, <1>8, <1>9, <1>10, <1>11, <1>12

-----------------------------------------------------------------------------

\* What is common to the constructor, the copy constructor and copy assignment:
\* o is alive, not spent, and named after u.
LEMMA NamedKeepsInv ==
  ASSUME Inv, NEW o \in Objects, NEW u \in Urls \cup {NoUrl}, NEW s \in Cells, Replace(o, u, s),
         alive' = alive \cup {o}, spent' = spent \ {o},
         base_url_' = Put(base_url_, o, u), domain_' = Put(domain_, o, extract_domain(u)),
         UNCHANGED frames
  PROVE  Inv'
<1>1. /\ sync_client_' \in [Objects -> Cells \cup {Null}]
      /\ heap' \in [DOMAIN heap' -> {SyncClient(v) : v \in Urls \cup {NoUrl}}]
      /\ OneOwner'
      /\ sync_client_'[o] # Null
      /\ heap'[sync_client_'[o]] = SyncClient(u)
      /\ \A p \in Objects \ {o} :
           /\ sync_client_'[p] = sync_client_[p]
           /\ sync_client_[p] # Null => heap'[sync_client_[p]] = heap[sync_client_[p]]
  BY ReplaceOwns
<1>2. base_url_' \in [Objects -> Urls \cup {NoUrl}] /\ base_url_'[o] = u
  BY DEF Inv, Ownership, TypeOK, Put
<1>3. domain_' \in [Objects -> {v.host : v \in Urls \cup {NoUrl}}] /\ domain_'[o] = extract_domain(u)
  BY DEF Inv, Ownership, TypeOK, Put, extract_domain
<1>4. \A p \in Objects \ {o} : base_url_'[p] = base_url_[p] /\ domain_'[p] = domain_[p]
  BY DEF Inv, Ownership, TypeOK, Put
<1>5. TypeOK'
  BY <1>1, <1>2, <1>3 DEF Inv, Ownership, TypeOK
<1>6. ClientWhereNeeded'
  BY <1>1 DEF Inv, Ownership, ClientWhereNeeded
<1>7. UrlsAgree'
  BY <1>1, <1>2, <1>3, <1>4 DEF Inv, UrlsAgree
<1> QED BY <1>1, <1>5, <1>6, <1>7 DEF Inv, Ownership

\* A move: what o owned goes, what p owned is o's.
LEMMA GiveKeepsInv ==
  ASSUME Inv, NEW o \in Objects, NEW p \in Objects, o # p, MayGive(p), Give(o, p),
         alive' = alive \cup {o}, frames[o] > 0 => p \notin spent, UNCHANGED frames
  PROVE  Inv'
<1> USE DEF Inv, Ownership, TypeOK
<1>1. /\ sync_client_' \in [Objects -> Cells \cup {Null}]
      /\ sync_client_'[o] = sync_client_[p]
      /\ sync_client_'[p] = Null
      /\ \A q \in Objects \ {o, p} : sync_client_'[q] = sync_client_[q]
  BY DEF Give
<1>2. /\ base_url_' \in [Objects -> Urls \cup {NoUrl}]
      /\ base_url_'[o] = base_url_[p]
      /\ base_url_'[p] = NoUrl
      /\ \A q \in Objects \ {o, p} : base_url_'[q] = base_url_[q]
  BY DEF Give
<1>3. /\ domain_' \in [Objects -> {v.host : v \in Urls \cup {NoUrl}}]
      /\ domain_'[o] = domain_[p]
      /\ domain_'[p] = NoUrl.host
      /\ \A q \in Objects \ {o, p} : domain_'[q] = domain_[q]
  BY DEF Give
<1>4. DOMAIN heap' = DOMAIN heap \ Owned(o) /\ \A t \in DOMAIN heap' : heap'[t] = heap[t]
  BY DEF Give
<1>5. heap' \in [DOMAIN heap' -> {SyncClient(v) : v \in Urls \cup {NoUrl}}]
  BY <1>4 DEF Give
<1>6. p \in alive /\ frames[p] = 0
  BY DEF MayGive
<1>7. spent' = IF p \in spent THEN spent \cup {o} ELSE (spent \ {o}) \cup {p}
  BY DEF Give
<1>8. TypeOK'
  BY <1>1, <1>2, <1>3, <1>5, <1>6, <1>7
<1>9. ClientWhereNeeded'
  <2> SUFFICES ASSUME NEW q \in Objects
               PROVE  /\ sync_client_'[q] # Null <=> q \in alive' \ spent'
                      /\ frames[q] > 0 => q \in alive' \ spent'
    BY DEF ClientWhereNeeded
  <2>1. CASE q = o
    BY <1>1, <1>6, <1>7, <2>1 DEF ClientWhereNeeded
  <2>2. CASE q = p
    BY <1>1, <1>6, <1>7, <2>2 DEF ClientWhereNeeded
  <2>3. CASE q \notin {o, p}
    BY <1>1, <1>7, <2>3 DEF ClientWhereNeeded
  <2> QED BY <2>1, <2>2, <2>3
<1>10. OneOwner'
  <2>1. \A q, r \in Objects : sync_client_'[q] = sync_client_'[r] /\ q # r => sync_client_'[q] = Null
    BY <1>1 DEF OneOwner
  <2>2. DOMAIN heap' = {sync_client_'[q] : q \in Objects} \ {Null}
    <3>1. DOMAIN heap' \subseteq {sync_client_'[q] : q \in Objects} \ {Null}
      <4> SUFFICES ASSUME NEW t \in DOMAIN heap'
                   PROVE  t \in {sync_client_'[q] : q \in Objects} \ {Null}
        OBVIOUS
      <4>1. PICK q \in Objects : t = sync_client_[q] /\ t # Null /\ q # o
        BY <1>4 DEF OneOwner, Owned
      <4> QED BY <1>1, <4>1
    <3>2. ASSUME NEW q \in Objects, sync_client_'[q] # Null
          PROVE  sync_client_'[q] \in DOMAIN heap'
      <4>1. PICK r \in Objects : sync_client_'[q] = sync_client_[r] /\ r # o
        BY <1>1, <3>2
      <4> QED BY <1>4, <3>2, <4>1 DEF OneOwner, Owned
    <3> QED BY <3>1, <3>2
  <2> QED BY <2>1, <2>2 DEF OneOwner
<1>11. UrlsAgree'
  <2> SUFFICES ASSUME NEW q \in Objects
               PROVE  /\ domain_'[q] = extract_domain(base_url_'[q])
                      /\ sync_client_'[q] # Null => heap'[sync_client_'[q]] = SyncClient(base_url_'[q])
    BY DEF UrlsAgree
  <2>1. sync_client_'[q] # Null => sync_client_'[q] \in DOMAIN heap'
    BY <1>10 DEF OneOwner
  <2>2. CASE q = o
    BY <1>1, <1>2, <1>3, <1>4, <2>1, <2>2 DEF UrlsAgree
  <2>3. CASE q = p
    BY <1>1, <1>2, <1>3, <2>3 DEF extract_domain
  <2>4. CASE q \notin {o, p}
    BY <1>1, <1>2, <1>3, <1>4, <2>1, <2>4 DEF UrlsAgree
  <2> QED BY <2>2, <2>3, <2>4
<1> QED BY <1>8, <1>9, <1>10, <1>11

-----------------------------------------------------------------------------

LEMMA InitInv == Init => Inv
<1> SUFFICES ASSUME Init PROVE Inv
  OBVIOUS
<1>1. TypeOK
  BY AwaitableAssumption DEF Init, TypeOK
<1>2. ClientWhereNeeded /\ OneOwner /\ UrlsAgree
  BY DEF Init, ClientWhereNeeded, OneOwner, UrlsAgree, extract_domain
<1> QED BY <1>1, <1>2 DEF Inv, Ownership

LEMMA DestroyKeepsInv == ASSUME Inv, NEW o \in Objects, Destroy(o) PROVE Inv'
<1> USE DEF Inv, Ownership, TypeOK
<1>1. /\ sync_client_' \in [Objects -> Cells \cup {Null}]
      /\ sync_client_'[o] = Null
      /\ \A q \in Objects \ {o} : sync_client_'[q] = sync_client_[q]
  BY DEF Destroy, Put
<1>2. DOMAIN heap' = DOMAIN heap \ Owned(o) /\ \A t \in DOMAIN heap' : heap'[t] = heap[t]
  BY DEF Destroy
<1>3. TypeOK'
  <2>1. heap' \in [DOMAIN heap' -> {SyncClient(v) : v \in Urls \cup {NoUrl}}]
    BY <1>2 DEF Destroy
  <2> QED BY <1>1, <2>1 DEF Destroy
<1>4. ClientWhereNeeded'
  BY <1>1 DEF Destroy, MayGive, ClientWhereNeeded
<1>5. OneOwner'
  <2>1. \A q, r \in Objects : sync_client_'[q] = sync_client_'[r] /\ q # r => sync_client_'[q] = Null
    BY <1>1 DEF OneOwner
  <2>2. DOMAIN heap' = {sync_client_'[q] : q \in Objects} \ {Null}
    BY <1>1, <1>2 DEF OneOwner, Owned
  <2> QED BY <2>1, <2>2 DEF OneOwner
<1>6. UrlsAgree'
  <2>1. \A q \in Objects : sync_client_'[q] # Null => sync_client_'[q] \in DOMAIN heap' /\ q # o
    BY <1>1, <1>5 DEF OneOwner
  <2> QED BY <1>1, <1>2, <2>1 DEF Destroy, UrlsAgree
<1> QED BY <1>3, <1>4, <1>5, <1>6

LEMMA RenameKeepsInv ==
  ASSUME Inv, NEW o \in Objects, NEW u \in Urls, set_base_url(o, u)
  PROVE  Inv'
<1> USE DEF Inv, Ownership, TypeOK
<1>1. sync_client_[o] \in DOMAIN heap /\ sync_client_[o] # Null
  BY DEF set_base_url, ClientWhereNeeded, OneOwner
<1>2. DOMAIN heap' = DOMAIN heap /\ heap'[sync_client_[o]] = SyncClient(u)
  BY <1>1 DEF set_base_url, Put
<1>3. \A t \in DOMAIN heap : t # sync_client_[o] => heap'[t] = heap[t]
  BY <1>1 DEF set_base_url, Put
<1>4. base_url_' = [base_url_ EXCEPT ![o] = u] /\ domain_' = [domain_ EXCEPT ![o] = u.host]
  BY DEF set_base_url, Put, extract_domain
<1>5. heap' \in [DOMAIN heap' -> {SyncClient(v) : v \in Urls \cup {NoUrl}}]
  BY <1>1, <1>2 DEF set_base_url, Put
<1>6. TypeOK'
  BY <1>4, <1>5 DEF set_base_url
<1>7. ClientWhereNeeded' /\ OneOwner'
  BY <1>2 DEF set_base_url, ClientWhereNeeded, OneOwner
<1>8. UrlsAgree'
  <2> SUFFICES ASSUME NEW q \in Objects
               PROVE  /\ domain_'[q] = extract_domain(base_url_'[q])
                      /\ sync_client_[q] # Null => heap'[sync_client_[q]] = SyncClient(base_url_'[q])
    BY DEF UrlsAgree, set_base_url
  <2>1. CASE q = o
    BY <1>2, <1>4, <2>1 DEF extract_domain
  <2>2. CASE q # o
    <3>1. sync_client_[q] # Null => sync_client_[q] \in DOMAIN heap /\ sync_client_[q] # sync_client_[o]
      BY <2>2 DEF OneOwner
    <3> QED BY <1>3, <1>4, <2>2, <3>1 DEF UrlsAgree
  <2> QED BY <2>1, <2>2
<1> QED BY <1>6, <1>7, <1>8

LEMMA NextInv == Inv /\ [Next]_vars => Inv'
<1> SUFFICES ASSUME Inv, [Next]_vars PROVE Inv'
  OBVIOUS
<1>1. ASSUME NEW o \in Objects, NEW u \in Urls, Construct(o, u) PROVE Inv'
  <2>1. spent = spent \ {o}
    BY <1>1 DEF Construct, Inv, Ownership, TypeOK
  <2> QED BY <1>1, <2>1, NamedKeepsInv DEF Construct
<1>2. ASSUME NEW o \in Objects, NEW p \in Objects, Copy(o, p) PROVE Inv'
  <2>1. spent = spent \ {o} /\ base_url_[p] \in Urls \cup {NoUrl}
    BY <1>2 DEF Copy, Inv, Ownership, TypeOK
  <2>2. domain_[p] = extract_domain(base_url_[p])
    BY DEF Inv, UrlsAgree
  <2> QED BY <1>2, <2>1, <2>2, NamedKeepsInv DEF Copy
<1>3. ASSUME NEW o \in Objects, NEW p \in Objects, Assign(o, p) PROVE Inv'
  <2>1. alive' = alive \cup {o} /\ base_url_[p] \in Urls \cup {NoUrl}
    BY <1>3 DEF Assign, Inv, Ownership, TypeOK
  <2>2. domain_[p] = extract_domain(base_url_[p])
    BY DEF Inv, UrlsAgree
  <2> QED BY <1>3, <2>1, <2>2, NamedKeepsInv DEF Assign
<1>4. ASSUME NEW o \in Objects, NEW p \in Objects, MoveConstruct(o, p) PROVE Inv'
  <2>1. o # p /\ ~(frames[o] > 0)
    BY <1>4 DEF MoveConstruct, MayGive, Inv, Ownership, ClientWhereNeeded
  <2> QED BY <1>4, <2>1, GiveKeepsInv DEF MoveConstruct
<1>5. ASSUME NEW o \in Objects, NEW p \in Objects, MoveAssign(o, p) PROVE Inv'
  <2>1. alive' = alive \cup {o}
    BY <1>5 DEF MoveAssign
  <2> QED BY <1>5, <2>1, GiveKeepsInv DEF MoveAssign
<1>6. ASSUME NEW o \in Objects, Make(o) PROVE Inv'
  <2>1. frames' \in [Objects -> 0..MaxFrames] /\ \A q \in Objects \ {o} : frames'[q] = frames[q]
    BY <1>6, AwaitableAssumption DEF Make, Put, Inv, Ownership, TypeOK
  <2> QED BY <1>6, <2>1
       DEF Make, members, Inv, Ownership, TypeOK, ClientWhereNeeded, OneOwner, UrlsAgree
<1>7. ASSUME NEW o \in Objects, Start(o) PROVE Inv'
  <2>1. frames' \in [Objects -> 0..MaxFrames] /\ \A q \in Objects : frames'[q] <= frames[q]
    BY <1>7, AwaitableAssumption DEF Start, Put, Inv, Ownership, TypeOK
  <2>2. \A q \in Objects : frames'[q] > 0 => frames[q] > 0
    BY <2>1, AwaitableAssumption DEF Inv, Ownership, TypeOK
  <2> QED BY <1>7, <2>1, <2>2
       DEF Start, members, Inv, Ownership, TypeOK, ClientWhereNeeded, OneOwner, UrlsAgree
<1>8. CASE UNCHANGED vars
  BY <1>8 DEF vars, members, Inv, Ownership, TypeOK, ClientWhereNeeded, OneOwner, UrlsAgree
<1> QED BY <1>1, <1>2, <1>3, <1>4, <1>5, <1>6, <1>7, <1>8, DestroyKeepsInv, RenameKeepsInv DEF Next

\* However objects are constructed, copied, moved, assigned to and destroyed,
\* every synchronous client has one owner and every coroutine finds one.
THEOREM OwnershipCorrect == Spec => []Ownership
<1>1. Inv => Ownership
  BY DEF Inv
<1> QED BY <1>1, InitInv, NextInv, PTL DEF Spec

\* Every request goes to the URL the object shows when the coroutine runs.
THEOREM CallsReachOwnUrlCorrect == Spec => CallsReachOwnUrl
<1>1. ASSUME Inv, [Next]_vars, NEW o \in Objects, frames'[o] < frames[o]
      PROVE  /\ o \in alive
             /\ request' = [base_url_ |-> base_url_[o], domain_ |-> domain_[o]]
             /\ domain_[o] = extract_domain(base_url_[o])
  <2>1. frames \in [Objects -> 0..MaxFrames]
    BY <1>1 DEF Inv, Ownership, TypeOK
  <2>2. PICK p \in Objects : Start(p) \/ Make(p)
    <3>1. frames' # frames
      BY <1>1, <2>1
    <3>2. \A p \in Objects, u \in Urls : Construct(p, u) \/ set_base_url(p, u) => frames' = frames
      BY DEF Construct, set_base_url
    <3>3. \A p, q \in Objects :
            Copy(p, q) \/ Assign(p, q) \/ MoveConstruct(p, q) \/ MoveAssign(p, q) \/ Destroy(p)
              => frames' = frames
      BY DEF Copy, Assign, MoveConstruct, MoveAssign, Destroy
    <3> QED BY <1>1, <3>1, <3>2, <3>3 DEF Next, vars
  <2>3. Start(p) /\ o = p
    BY <1>1, <2>1, <2>2, AwaitableAssumption DEF Make, Start, Put
  <2>4. o \in alive /\ sync_client_[o] # Null
    BY <1>1, <2>3 DEF Start, Inv, Ownership, ClientWhereNeeded
  <2> QED BY <1>1, <2>3, <2>4 DEF Start, Inv, UrlsAgree, SyncClient
<1>2. Inv /\ [Next]_vars =>
        [\A o \in Objects :
           frames'[o] < frames[o] =>
             /\ o \in alive
             /\ request' = [base_url_ |-> base_url_[o], domain_ |-> domain_[o]]
             /\ domain_[o] = extract_domain(base_url_[o])]_vars
  BY <1>1
<1> QED BY <1>2, InitInv, NextInv, PTL DEF Spec, CallsReachOwnUrl

=============================================================================
