-------------------------------- MODULE Arena --------------------------------
(***************************************************************************)
(* The arena every AST node lives in (include/support/Arena.hpp): a list   *)
(* of blocks, the last of which a bump pointer fills.                      *)
(*                                                                         *)
(* Addresses are numbers.  A block is [base, size, used]; where the heap   *)
(* puts it is the environment's choice, any address past the blocks there  *)
(* are, so a base is aligned to nothing in particular.  "request" is the   *)
(* allocateRaw() call in progress, which recurses after adding a block;    *)
(* "given" is a history variable, the regions handed out so far.           *)
(***************************************************************************)
EXTENDS Integers, Sequences, FiniteSets

CONSTANTS
  BlockBytes,    \* _blockBytes
  Sizes,         \* the sizeof of the types allocated
  Alignments,    \* their alignof
  Gaps,          \* how far past the last block the heap may place the next
  MaxRegions     \* bound: how many allocations a behaviour makes

ASSUME ArenaAssumption ==
  /\ BlockBytes \in Nat
  /\ Sizes \subseteq Nat \ {0}
  /\ Alignments \subseteq Nat \ {0}
  /\ Gaps \subseteq Nat
  /\ MaxRegions \in Nat

VARIABLES
  blocks,        \* _blocks
  request,       \* the arguments of allocateRaw(), Idle between calls
  given          \* history: the regions returned by allocateRaw()

arenaVars == <<blocks, request, given>>

Idle == [bytes |-> 0, alignment |-> 1, grown |-> 0]

Request == [bytes: Sizes, alignment: Alignments, grown: Nat]

Current == blocks[Len(blocks)]

(* std::align(): the first aligned address at or after the bump pointer,   *)
(* provided that what is left of the block holds the bytes from there on.  *)
RoundUp(a, n) == a + ((n - (a % n)) % n)

AlignedByOffset(b, r) == b.base + RoundUp(b.used, r.alignment)      \* mutant

AlignedIn(b, r) == RoundUp(b.base + b.used, r.alignment)

FitsSpace(b, r) == b.used + r.bytes <= b.size      \* mutant

Fits(b, r) == AlignedIn(b, r) + r.bytes <= b.base + b.size

(* addBlock() *)
Larger(m, n) == IF m > n THEN m ELSE n

NewBlock(base, minBytes) ==
  [base |-> base, size |-> Larger(minBytes, BlockBytes), used |-> 0]

(* The size asked of addBlock(): the bytes and the alignment's slack.      *)
WithoutSlack(r) == r.bytes      \* mutant

Needed(r) == r.bytes + r.alignment

ArenaInit ==
  /\ \E gap \in Gaps : blocks = <<NewBlock(gap, BlockBytes)>>
  /\ request = Idle
  /\ given = {}

(* allocate<T>(), emplace<T>(): allocateRaw(sizeof(T), alignof(T)).        *)
Allocate ==
  /\ request = Idle
  /\ Cardinality(given) < MaxRegions
  /\ \E bytes \in Sizes, alignment \in Alignments :
       request' = [bytes |-> bytes, alignment |-> alignment, grown |-> 0]
  /\ UNCHANGED <<blocks, given>>

UsedUnpadded(b, r) == b.used + r.bytes      \* mutant

UsedAfter(b, r) == AlignedIn(b, r) - b.base + r.bytes

(* allocateRaw() when the request fits the current block.                  *)
Bump ==
  /\ request # Idle
  /\ Fits(Current, request)
  /\ given' = given \cup
       {[addr |-> AlignedIn(Current, request), bytes |-> request.bytes,
         alignment |-> request.alignment]}
  /\ blocks' = [blocks EXCEPT ![Len(blocks)].used = UsedAfter(Current, request)]
  /\ request' = Idle

(* allocateRaw() when it does not: a fresh block, and the call again.      *)
Grow ==
  /\ request # Idle
  /\ ~Fits(Current, request)
  /\ \E gap \in Gaps :
       blocks' = Append(blocks, NewBlock(Current.base + Current.size + gap,
                                         Needed(request)))
  /\ request' = [request EXCEPT !.grown = @ + 1]
  /\ UNCHANGED given

ArenaNext == Allocate \/ Bump \/ Grow

ArenaSpec == ArenaInit /\ [][ArenaNext]_arenaVars

-----------------------------------------------------------------------------
Block == [base: Nat, size: Nat, used: Nat]
Region == [addr: Nat, bytes: Sizes, alignment: Alignments]

(* Every variable has its type; the bump pointer is never before its block. *)
ArenaTypeOK ==
  /\ blocks \in Seq(Block) /\ blocks # <<>>
  /\ request \in Request \cup {Idle}
  /\ given \subseteq Region

(* No two live nodes overlap: every pointer handed out stays valid.        *)
Disjoint(g, h) == g.addr + g.bytes <= h.addr \/ h.addr + h.bytes <= g.addr

RegionsAreDisjoint ==
  \A g, h \in given : g = h \/ Disjoint(g, h)

(* Every region lies in the used part of one block, so releasing the       *)
(* blocks releases it and nothing is written past a block's end.           *)
Inside(g, b) ==
  /\ b.base <= g.addr
  /\ g.addr + g.bytes <= b.base + b.used

RegionsAreInBlocks ==
  /\ \A i \in DOMAIN blocks : blocks[i].used <= blocks[i].size
  /\ \A g \in given : \E i \in DOMAIN blocks : Inside(g, blocks[i])

(* A node is placed at its type's alignment whatever the block's own.      *)
RegionsAreAligned == \A g \in given : g.addr % g.alignment = 0

(* The recursion in allocateRaw() is one deep, so every allocation returns: *)
(* a block made for a request always holds it, however badly the heap      *)
(* aligned the block.                                                      *)
OneBlockIsEnough ==
  /\ request.grown <= 1
  /\ request.grown = 1 => Fits(Current, request)
=============================================================================
