--------------------------------- MODULE Pmm ---------------------------------
(***************************************************************************)
(* The page frame allocator's run-time interface, pfa_alloc_pages and      *)
(* pfa_free of source/mem/phys/pmm.c, called by the CPUs of the machine.   *)
(* A zone is a manager, the figures cached about it, and the byte isusing  *)
(* that is meant to keep a second CPU out.  Of the managers, Buddy and     *)
(* BuddyLow, nothing is assumed: a call of one gives NULL or an address,   *)
(* and any figure, or leaves its arrays, after which nothing is known.     *)
(*                                                                         *)
(* A step is one access to shared memory: the test of isusing, the         *)
(* exchange whose result the code drops, the work on the manager, the two  *)
(* halves of the unlocked update of free and reserved, the clear.          *)
(***************************************************************************)
EXTENDS Integers, FiniteSetsExt

CONSTANTS
    CPUs,
    zoneCount,        \* normal zones, numbered 0 .. zoneCount - 1
    ZonePages,        \* pages of a normal zone (2^BUDDY_TREE_DEPTH)
    LowPages,         \* pages of the low zone (2^BUDDYLOW_TREE_DEPTH)
    PAGE_SIZE,        \* bytes of a page
    Counts,           \* page counts asked for
    Starts,           \* free pages a normal zone's manager may report at the start
    LowStart,         \* free pages the low one reports
    Figures,          \* largest blocks a manager may report
    HeldBound,        \* bound: kinds of blocks held at a time
    Drift             \* bound: how far a total may leave what its zone has

\* At least one zone of 256 MiB, 2^16 pages, in the machine.
ASSUME PmmAssumption ==
    /\ zoneCount \in Nat \ {0} /\ ZonePages \in 1 .. 65536 /\ LowPages \in 1 .. ZonePages
    /\ PAGE_SIZE \in Nat \ {0} /\ HeldBound \in Nat /\ Drift \in Nat
    /\ Starts \subseteq 0 .. ZonePages /\ LowStart \in 0 .. 65535 /\ Figures \subseteq Nat

\* Larger requests are refused by the first test of pfa_alloc_pages.
ASSUME CountsAssumption == Counts \subseteq 0 .. 65536

Normal == 0 .. zoneCount - 1
Low    == zoneCount              \* lowZoneAllocator
Zones  == Normal \cup {Low}
Beyond == zoneCount + 1          \* an index behind the array of zones
ManagerSize(z) == IF z = Low THEN LowPages ELSE ZonePages

VARIABLES
    total,            \* total[z]: "amount of free pages in this zone"
    maxMemReq,        \* maxMemReq[z]: largest block, in pages
    isusing,          \* isusing[z]
    free, reserved,   \* pageManager.free and .reserved, in bytes
    held,             \* the kinds of blocks callers hold: [home, count]
    pc,               \* pc[c]: where CPU c stands in a call
    req               \* req[c]: its locals [zone, count, got, free, reserved]

vars == <<total, maxMemReq, isusing, free, reserved, held, pc, req>>

\* got: the pages a manager has given, 0 for NULL.
Request == [zone : Zones, count : Nat, got : Nat, free : Int, reserved : Int]
Idle == [zone |-> 0, count |-> 0, got |-> 0, free |-> 0, reserved |-> 0]
Block == [home : Zones \cup {Beyond}, count : Nat]

\* Where a CPU stands: outside, before a step of pfa_alloc_pages or pfa_free, or
\* where a manager or an index has left its array.
Labels ==
    {"idle", "alloc.wait", "alloc.take", "alloc.work", "alloc.load", "alloc.store",
     "alloc.clear", "free.wait", "free.take", "free.work", "free.clear", "free.load",
     "free.store", "lost"}

Goto(c, label) == pc' = [pc EXCEPT ![c] = label]
Local(c, r) == req' = [req EXCEPT ![c] = r]
Accounts == <<total, maxMemReq, free, reserved>>

-----------------------------------------------------------------------------
(* Counts and addresses.                                                   *)

\* The powers of two up to 2^BUDDY_TREE_DEPTH, the pages of a real zone.
Powers == {1, 2, 4, 8, 16, 32, 64, 128, 256, 512, 1024, 2048, 4096, 8192, 16384,
           32768, 65536}

round2(n) == IF n = 0 THEN 0 ELSE Min({p \in Powers : p >= n})

\* The zone pfa_free works out of an address that the manager of z gave: z, if the
\* address is in it.  With the linked log2ui getAddress is below the start of z, and the
\* index, cut to sixteen bits, that of the zone before, or of none for the first and for
\* the low one.
HomesOf(z) == {z, IF z \in Normal \ {0} THEN z - 1 ELSE Beyond}

-----------------------------------------------------------------------------
\* The pages the normal zones report, over which pfa_init sums.
FreeNormal == {p \in Normal \X (0 .. ZonePages - 1) : p[2] < total[p[1]]}

\* The end of pfa_init: the figures of every zone, and the totals.  The low
\* zone's pages are added to the bytes as they are.
Init ==
    /\ total \in [Zones -> Starts \cup {LowStart}] /\ total[Low] = LowStart
    /\ \A z \in Normal : total[z] \in Starts
    /\ maxMemReq \in [Zones -> Figures]
    /\ free = Cardinality(FreeNormal) * PAGE_SIZE + total[Low]
    /\ reserved = ZonePages * PAGE_SIZE * zoneCount - free
    /\ isusing = [z \in Zones |-> FALSE]
    /\ held = {}
    /\ pc = [c \in CPUs |-> "idle"]
    /\ req = [c \in CPUs |-> Idle]

-----------------------------------------------------------------------------
(* pfa_alloc_pages.                                                        *)

\* The call: the count is rounded, and refused when it is 0 or larger than a
\* zone; a DMA_LOW request goes to the low zone, the others start at zone 0.
\* HeldBound and Drift keep the model finite.
CallAlloc(c) ==
    /\ pc[c] = "idle"
    /\ Cardinality(held) < HeldBound
    /\ \A z \in Zones : total[z] + Drift >= 0
    /\ \E n \in Counts, z \in {0, Low} :
          /\ round2(n) \in 1 .. ZonePages
          /\ Local(c, [Idle EXCEPT !.zone = z, !.count = round2(n)])
    /\ Goto(c, "alloc.wait")
    /\ UNCHANGED <<isusing, held, Accounts>>

\* The spin: on a normal zone the CPU stays here while the zone is in use and
\* also while its largest block is too small.
AllocWait(c) ==
    LET z == req[c].zone
    IN  /\ pc[c] = "alloc.wait"
        /\ ~isusing[z]
        /\ z # Low => maxMemReq[z] >= req[c].count
        /\ Goto(c, "alloc.take")
        /\ UNCHANGED <<isusing, held, req, Accounts>>

\* atomic_exchange_ret_u8 sets isusing; its result is dropped.
AllocTake(c) ==
    /\ pc[c] = "alloc.take"
    /\ isusing' = [isusing EXCEPT ![req[c].zone] = TRUE]
    /\ Goto(c, "alloc.work")
    /\ UNCHANGED <<held, req, Accounts>>

\* alloc_pages: NULL, which is all there is for more pages than the manager has, or an
\* address; for a normal zone then the refresh of maxMemReq, whatever the manager says.
AllocWork(c) ==
    LET z == req[c].zone
        n == req[c].count
    IN  /\ pc[c] = "alloc.work"
        /\ n # ManagerSize(z)
        /\ \/ /\ Local(c, [req[c] EXCEPT !.got = 0])
              /\ UNCHANGED held
           \/ /\ n < ManagerSize(z)
              /\ Local(c, [req[c] EXCEPT !.got = n])
              /\ \E h \in HomesOf(z) : held' = held \cup {[home |-> h, count |-> n]}
        /\ \E f \in Figures :
              maxMemReq' = IF z = Low THEN maxMemReq ELSE [maxMemReq EXCEPT ![z] = f]
        /\ Goto(c, IF z = Low THEN "alloc.clear" ELSE "alloc.load")
        /\ UNCHANGED <<total, free, reserved, isusing>>

\* Its level is reckoned with log2ui: the request for all the manager's pages reads the
\* list before the first.
AllocLost(c) ==
    /\ pc[c] = "alloc.work"
    /\ req[c].count = ManagerSize(req[c].zone)
    /\ Goto(c, "lost")
    /\ UNCHANGED <<isusing, held, req, Accounts>>

\* The unlocked read-modify-write of free and reserved: the reads ...
AllocLoad(c) ==
    /\ pc[c] = "alloc.load"
    /\ Local(c, [req[c] EXCEPT !.free = free, !.reserved = reserved])
    /\ Goto(c, "alloc.store")
    /\ UNCHANGED <<isusing, held, Accounts>>

\* Slip: the zone's own count is left alone.
SlipAllocStore(c) ==
    LET bytes == req[c].got * PAGE_SIZE
    IN  /\ pc[c] = "alloc.store"
        /\ free' = req[c].free - bytes
        /\ reserved' = req[c].reserved + bytes
        /\ Goto(c, "alloc.clear")
        /\ UNCHANGED <<isusing, total, maxMemReq, held, req>>

\* ... and the writes, which change nothing when the block is NULL.
AllocStore(c) ==
    LET bytes == req[c].got * PAGE_SIZE
        z == req[c].zone
    IN  /\ pc[c] = "alloc.store"
        /\ free' = req[c].free - bytes
        /\ reserved' = req[c].reserved + bytes
        /\ total' = [total EXCEPT ![z] = @ - req[c].got]
        /\ Goto(c, "alloc.clear")
        /\ UNCHANGED <<isusing, maxMemReq, held, req>>

\* atomic_clear, then the loop: an unsatisfied request tries the next zone.
AllocClear(c) ==
    LET z == req[c].zone
        again == z # Low /\ req[c].got = 0 /\ z + 1 < zoneCount
    IN  /\ pc[c] = "alloc.clear"
        /\ isusing' = [isusing EXCEPT ![z] = FALSE]
        /\ Local(c, IF again THEN [req[c] EXCEPT !.zone = z + 1] ELSE Idle)
        /\ Goto(c, IF again THEN "alloc.wait" ELSE "idle")
        /\ UNCHANGED <<held, Accounts>>

-----------------------------------------------------------------------------
(* pfa_free.                                                               *)

\* The call, with a block the caller holds and the size it asked for: the zone is worked
\* out of the address, and may be none of the array.  An address inside the block that is
\* not page aligned passes the checks here; got tells the manager's answer to it.
CallFree(c, aligned) ==
    /\ pc[c] = "idle"
    /\ \E b \in held :
          /\ b.home # Beyond
          /\ total[b.home] + b.count <= ZonePages + Drift
          /\ Local(c, [Idle EXCEPT !.zone = b.home, !.count = b.count,
                                   !.got = IF aligned THEN b.count ELSE 0])
          /\ held' = IF aligned THEN held \ {b} ELSE held
    /\ Goto(c, "free.wait")
    /\ UNCHANGED <<isusing, Accounts>>

FreeLost(c) ==
    /\ pc[c] = "idle"
    /\ \E b \in held : b.home = Beyond
    /\ Goto(c, "lost")
    /\ UNCHANGED <<isusing, held, req, Accounts>>

FreeWait(c) ==
    /\ pc[c] = "free.wait"
    /\ ~isusing[req[c].zone]
    /\ Goto(c, "free.take")
    /\ UNCHANGED <<isusing, held, req, Accounts>>

FreeTake(c) ==
    /\ pc[c] = "free.take"
    /\ isusing' = [isusing EXCEPT ![req[c].zone] = TRUE]
    /\ Goto(c, "free.work")
    /\ UNCHANGED <<held, req, Accounts>>

\* free_pages, with the level DEPTH - log2ui(blockSize), then total and maxMemReq, whatever
\* the manager says; or a block that the manager does not have makes it leave its arrays.
FreeWork(c) ==
    LET z == req[c].zone
    IN  /\ pc[c] = "free.work"
        /\ req[c].got # 0
        /\ \/ /\ total' = [total EXCEPT ![z] = @ + req[c].count]
              /\ \E f \in Figures : maxMemReq' = [maxMemReq EXCEPT ![z] = f]
              /\ Goto(c, "free.clear")
           \/ /\ Goto(c, "lost")
              /\ UNCHANGED <<total, maxMemReq>>
        /\ UNCHANGED <<free, reserved, isusing, held, req>>

\* free_pages refuses the pointer: the error is reported and the function
\* returns, with isusing as it is.
FreeRefused(c) ==
    /\ pc[c] = "free.work"
    /\ req[c].got = 0
    /\ Local(c, Idle)
    /\ Goto(c, "idle")
    /\ UNCHANGED <<isusing, held, Accounts>>

\* Slip: the clear is forgotten on the way out.
SlipFreeClear(c) ==
    /\ pc[c] = "free.clear"
    /\ Goto(c, "free.load")
    /\ UNCHANGED <<isusing, held, req, Accounts>>

FreeClear(c) ==
    /\ pc[c] = "free.clear"
    /\ isusing' = [isusing EXCEPT ![req[c].zone] = FALSE]
    /\ Goto(c, "free.load")
    /\ UNCHANGED <<held, req, Accounts>>

FreeLoad(c) ==
    /\ pc[c] = "free.load"
    /\ Local(c, [req[c] EXCEPT !.free = free, !.reserved = reserved])
    /\ Goto(c, "free.store")
    /\ UNCHANGED <<isusing, held, Accounts>>

\* Slip: the count of the caller, not the bytes.
SlipFreeStore(c) ==
    /\ pc[c] = "free.store"
    /\ free' = req[c].free + req[c].count
    /\ reserved' = req[c].reserved - req[c].count * PAGE_SIZE
    /\ Local(c, Idle)
    /\ Goto(c, "idle")
    /\ UNCHANGED <<isusing, held, total, maxMemReq>>

FreeStore(c) ==
    /\ pc[c] = "free.store"
    /\ free' = req[c].free + req[c].count * PAGE_SIZE
    /\ reserved' = req[c].reserved - req[c].count * PAGE_SIZE
    /\ Local(c, Idle)
    /\ Goto(c, "idle")
    /\ UNCHANGED <<isusing, held, total, maxMemReq>>

-----------------------------------------------------------------------------
InCall(c) ==
    \/ AllocWait(c) \/ AllocTake(c) \/ AllocWork(c) \/ AllocLost(c)
    \/ AllocLoad(c) \/ AllocStore(c) \/ AllocClear(c)
    \/ FreeWait(c) \/ FreeTake(c) \/ FreeWork(c)
    \/ FreeClear(c) \/ FreeLoad(c) \/ FreeStore(c)

Step(c) == CallAlloc(c) \/ CallFree(c, TRUE) \/ FreeLost(c) \/ InCall(c)

\* A CPU that is lost may have overwritten anything: the model ends there.
Sane == \A c \in CPUs : pc[c] # "lost"

Next == Sane /\ \E c \in CPUs : Step(c)

Spec == Init /\ [][Next]_vars

\* With callers that also pass pointers pfa_free must refuse.
NextRefusing == Sane /\ \E c \in CPUs : Step(c) \/ CallFree(c, FALSE) \/ FreeRefused(c)

SpecRefusing == Init /\ [][NextRefusing]_vars

\* A CPU inside a call goes on with it; making a call is the caller's choice.
FairSpec == Spec /\ \A c \in CPUs : WF_vars(Sane /\ InCall(c))

-----------------------------------------------------------------------------
(* Properties.                                                             *)

Quiet == \A c \in CPUs : pc[c] = "idle"

\* Inside the part of a call that isusing is meant to protect.
Inside(c, z) ==
    /\ req[c].zone = z
    /\ pc[c] \in {"alloc.work", "alloc.load", "alloc.store", "alloc.clear",
                  "free.work", "free.clear"}

\* Every variable has its type.
Typing ==
    /\ total \in [Zones -> Int] /\ maxMemReq \in [Zones -> Nat]
    /\ isusing \in [Zones -> BOOLEAN]
    /\ free \in Int /\ reserved \in Int
    /\ held \subseteq Block
    /\ pc \in [CPUs -> Labels]
    /\ req \in [CPUs -> Request]

\* free and reserved are two sides of one account: between calls their sum is
\* the memory the normal zones manage, whatever was allocated and returned, and into
\* whichever zone.
AccountsBalance == Quiet => free + reserved = ZonePages * PAGE_SIZE * zoneCount

\* A call returns a zone to the others: with no call under way nothing is in use.
QuietMeansUnlocked == Quiet => \A z \in Zones : ~isusing[z]

\* The pages the zones count are the bytes counted: between calls free differs from
\* the totals only by the low zone's first pages, which were added as bytes.
TotalsAddUp ==
    Quiet => free + (PAGE_SIZE - 1) * LowStart
                 = PAGE_SIZE * MapThenSumSet(LAMBDA z : total[z], Zones)

\* A call of pfa_free into a zone of the array comes back, unless its manager leaves
\* its own arrays.
FreeReturns == \A c \in CPUs : (pc[c] = "free.wait") ~> (pc[c] \in {"idle", "lost"})

\* pmm.h:38 "if a thread is using this allocator it'll set this variable": one
\* that is set has such a thread.
InUseMeansUser == Sane => \A z \in Zones : isusing[z] => \E c \in CPUs : Inside(c, z)

\* The accounts balance in memory and in the copy a call has loaded.
Balanced ==
    /\ free + reserved = ZonePages * PAGE_SIZE * zoneCount
    /\ \A c \in CPUs : pc[c] \in {"alloc.store", "free.store"} =>
          req[c].free + req[c].reserved = ZonePages * PAGE_SIZE * zoneCount

\* The inductive invariant behind the properties above, for one CPU.
PmmInv ==
    /\ Typing
    /\ Balanced
    /\ InUseMeansUser

\* pmm.h:38 "if a thread is using this allocator it'll set this variable", and
\* pmm.c:485 "thread A locks the allocator": one CPU at a time works on a zone.
OneUserPerZone ==
    \A z \in Zones, c, d \in CPUs : Inside(c, z) /\ Inside(d, z) => c = d

\* pmm.h:123 "If the manager doesn't find an allocator, nullptr will be
\* returned": a request comes back, with a block or without.
AllocReturns == \A c \in CPUs : (pc[c] = "alloc.wait") ~> (pc[c] = "idle")
=============================================================================
