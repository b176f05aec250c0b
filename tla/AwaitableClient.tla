--------------------------- MODULE AwaitableClient ---------------------------
(***************************************************************************)
(* CoinbaseAwaitableRestClient: objects with value semantics, each around  *)
(* a synchronous client on the heap, whose methods are coroutines.  A      *)
(* method that is called makes a coroutine which holds a pointer to the    *)
(* object and does nothing; when it is awaited it runs through in one go,  *)
(* request included, on the thread that awaits it.  In between the object  *)
(* may be given another URL, be assigned to, or be copied.                 *)
(*                                                                         *)
(* The application sees to it that an object is not destroyed or moved     *)
(* from while a coroutine points to it, and that nothing is called on an   *)
(* object it has moved from: the code would dereference nullptr.           *)
(***************************************************************************)
EXTENDS Integers, FiniteSets

CONSTANTS
  Objects,   \* places for client objects
  Urls,      \* URLs the application gives
  Cells,     \* heap addresses for the synchronous clients
  Null,      \* nullptr
  MaxFrames  \* bound: coroutines made and not started, per object

NoUrl == [scheme |-> "", host |-> ""]

\* An assignment constructs the new synchronous client before it deletes the
\* old one, so that one address more than objects suffices.
ASSUME AwaitableAssumption ==
  /\ \A u \in Urls : DOMAIN u = {"scheme", "host"}
  /\ Null \notin Cells
  /\ IsFiniteSet(Objects)
  /\ IsFiniteSet(Cells)
  /\ Cardinality(Cells) > Cardinality(Objects)
  /\ MaxFrames \in Nat

VARIABLES
  alive,         \* objects constructed and not destroyed
  base_url_, domain_, sync_client_,  \* members, by object
  heap,          \* heap[s]: URL and domain of the synchronous client at s
  frames,        \* coroutines made and not started, by object
  spent,         \* history: objects that gave their synchronous client away
  request        \* history: URL and domain of the request sent last

members == <<alive, base_url_, domain_, sync_client_>>
vars == <<members, heap, frames, spent, request>>

-----------------------------------------------------------------------------

\* What follows "://", or all of it.
extract_domain(u) == u.host

SyncClient(u) == [base_url_ |-> u, domain_ |-> extract_domain(u)]

Free == Cells \ DOMAIN heap

Owned(o) == {sync_client_[o]} \ {Null}

Put(f, o, v) == [f EXCEPT ![o] = v]

\* make_unique at cell s, in place of what o owns.
Replace(o, u, s) ==
  /\ s \in Free
  /\ heap' = [t \in (DOMAIN heap \cup {s}) \ Owned(o) |-> IF t = s THEN SyncClient(u) ELSE heap[t]]
  /\ sync_client_' = Put(sync_client_, o, s)

Construct(o, u) ==
  /\ o \notin alive
  /\ alive' = alive \cup {o}
  /\ base_url_' = Put(base_url_, o, u)
  /\ domain_' = Put(domain_, o, extract_domain(u))
  /\ \E s \in Cells : Replace(o, u, s)
  /\ UNCHANGED <<frames, spent, request>>

\* The copy constructor: the copy has a synchronous client of its own.
Copy(o, p) ==
  /\ o \notin alive
  /\ p \in alive
  /\ alive' = alive \cup {o}
  /\ base_url_' = Put(base_url_, o, base_url_[p])
  /\ domain_' = Put(domain_, o, domain_[p])
  /\ \E s \in Cells : Replace(o, base_url_[p], s)
  /\ UNCHANGED <<frames, spent, request>>

\* Mistake: the synchronous client is made before the URL is copied.
AssignLate(o, p) ==
  /\ {o, p} \subseteq alive
  /\ o # p
  /\ base_url_' = Put(base_url_, o, base_url_[p])
  /\ domain_' = Put(domain_, o, domain_[p])
  /\ \E s \in Cells : Replace(o, base_url_[o], s)
  /\ spent' = spent \ {o}
  /\ UNCHANGED <<alive, frames, request>>

\* Copy assignment; to itself it does nothing.
Assign(o, p) ==
  /\ {o, p} \subseteq alive
  /\ o # p
  /\ base_url_' = Put(base_url_, o, base_url_[p])
  /\ domain_' = Put(domain_, o, domain_[p])
  /\ \E s \in Cells : Replace(o, base_url_[p], s)
  /\ spent' = spent \ {o}
  /\ UNCHANGED <<alive, frames, request>>

\* Nothing is called on p any more.
MayGive(p) == p \in alive /\ frames[p] = 0

\* Mistake: the pointer is copied.
GiveShared(o, p) ==
  /\ base_url_' = [base_url_ EXCEPT ![o] = base_url_[p], ![p] = NoUrl]
  /\ domain_' = [domain_ EXCEPT ![o] = domain_[p], ![p] = NoUrl.host]
  /\ sync_client_' = [sync_client_ EXCEPT ![o] = sync_client_[p]]
  /\ heap' = [t \in DOMAIN heap \ Owned(o) |-> heap[t]]
  /\ spent' = IF p \in spent THEN spent \cup {o} ELSE (spent \ {o}) \cup {p}

\* Memberwise move of p into o: what o owned is deleted, a string moved from is
\* left empty.
Give(o, p) ==
  /\ base_url_' = [base_url_ EXCEPT ![o] = base_url_[p], ![p] = NoUrl]
  /\ domain_' = [domain_ EXCEPT ![o] = domain_[p], ![p] = NoUrl.host]
  /\ sync_client_' = [sync_client_ EXCEPT ![o] = sync_client_[p], ![p] = Null]
  /\ heap' = [t \in DOMAIN heap \ Owned(o) |-> heap[t]]
  /\ spent' = IF p \in spent THEN spent \cup {o} ELSE (spent \ {o}) \cup {p}

MoveConstruct(o, p) ==
  /\ o \notin alive
  /\ MayGive(p)
  /\ alive' = alive \cup {o}
  /\ Give(o, p)
  /\ UNCHANGED <<frames, request>>

\* What is still to be called on o is called on what p has been.
MoveAssign(o, p) ==
  /\ o \in alive
  /\ o # p
  /\ MayGive(p)
  /\ frames[o] > 0 => p \notin spent
  /\ Give(o, p)
  /\ UNCHANGED <<alive, frames, request>>

Destroy(o) ==
  /\ MayGive(o)
  /\ alive' = alive \ {o}
  /\ sync_client_' = Put(sync_client_, o, Null)
  /\ heap' = [t \in DOMAIN heap \ Owned(o) |-> heap[t]]
  /\ spent' = spent \ {o}
  /\ UNCHANGED <<base_url_, domain_, frames, request>>

set_base_url(o, u) ==
  /\ o \in alive \ spent
  /\ base_url_' = Put(base_url_, o, u)
  /\ domain_' = Put(domain_, o, extract_domain(u))
  /\ heap' = Put(heap, sync_client_[o], SyncClient(u))
  /\ UNCHANGED <<alive, sync_client_, frames, spent, request>>

\* A method is called: asio::awaitable starts suspended.
Make(o) ==
  /\ o \in alive \ spent
  /\ frames[o] < MaxFrames
  /\ frames' = Put(frames, o, frames[o] + 1)
  /\ UNCHANGED <<members, heap, spent, request>>

\* It is awaited: co_return sync_client_->method(arguments), whichever method
\* it is.  The synchronous client formats its own URL and signs for its own
\* domain.
Start(o) ==
  /\ frames[o] > 0
  /\ frames' = Put(frames, o, frames[o] - 1)
  /\ request' = heap[sync_client_[o]]
  /\ UNCHANGED <<members, heap, spent>>

-----------------------------------------------------------------------------

Init ==
  /\ alive = {}
  /\ base_url_ = [o \in Objects |-> NoUrl]
  /\ domain_ = [o \in Objects |-> NoUrl.host]
  /\ sync_client_ = [o \in Objects |-> Null]
  /\ heap = [t \in {} |-> SyncClient(NoUrl)]
  /\ frames = [o \in Objects |-> 0]
  /\ spent = {}
  /\ request = SyncClient(NoUrl)

Next ==
  \E o \in Objects :
    \/ \E u \in Urls : Construct(o, u) \/ set_base_url(o, u)
    \/ \E p \in Objects : Copy(o, p) \/ Assign(o, p) \/ MoveConstruct(o, p) \/ MoveAssign(o, p)
    \/ Destroy(o) \/ Make(o) \/ Start(o)

Spec == Init /\ [][Next]_vars

-----------------------------------------------------------------------------
(* Properties.                                                             *)

TypeOK ==
  /\ alive \subseteq Objects
  /\ base_url_ \in [Objects -> Urls \cup {NoUrl}]
  /\ domain_ \in [Objects -> {u.host : u \in Urls \cup {NoUrl}}]
  /\ sync_client_ \in [Objects -> Cells \cup {Null}]
  /\ heap \in [DOMAIN heap -> {SyncClient(u) : u \in Urls \cup {NoUrl}}]
  /\ frames \in [Objects -> 0..MaxFrames]
  /\ spent \subseteq alive

\* An object is without its synchronous client only if it gave it away itself,
\* and never while a coroutine is still to use it.
ClientWhereNeeded ==
  \A o \in Objects :
    /\ sync_client_[o] # Null <=> o \in alive \ spent
    /\ frames[o] > 0 => o \in alive \ spent

OneOwner ==
  /\ \A o, p \in Objects : sync_client_[o] = sync_client_[p] /\ o # p => sync_client_[o] = Null
  /\ DOMAIN heap = {sync_client_[o] : o \in Objects} \ {Null}

\* Every variable has its type; every synchronous client is owned by exactly
\* one object, so that none is shared, leaked or deleted twice; and no coroutine
\* finds its object without one.
Ownership == TypeOK /\ ClientWhereNeeded /\ OneOwner

\* A request goes where base_url() of the object shows at that moment, and is
\* signed for that domain, however the object came to be what it is: copied,
\* assigned to, moved, or renamed after the method was called.
CallsReachOwnUrl ==
  [][\A o \in Objects :
       frames'[o] < frames[o] =>
         /\ o \in alive
         /\ request' = [base_url_ |-> base_url_[o], domain_ |-> domain_[o]]
         /\ domain_[o] = extract_domain(base_url_[o])]_vars

=============================================================================
