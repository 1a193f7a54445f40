---------------------------- MODULE PackedMemory ----------------------------
(***************************************************************************)
(* Packed values in memory.  A data constructor is a one-byte tag, its     *)
(* scalars, and then its packed fields, in preorder, without pointers; a   *)
(* value may continue elsewhere through an indirection (one field) or a    *)
(* redirection (everything that follows).  Both hold a tagged pointer: an  *)
(* address and the distance from there to the footer of its chunk, in 16   *)
(* bits (gibbon_rts.h, GIB_STORE_TAG; tagged_pointer.rs).                  *)
(*                                                                         *)
(* Memory is a function from the addresses at which something has been     *)
(* written to what is there, a cell.  Addresses are bytes and cells have   *)
(* the sizes of the code, so that what is written over something else      *)
(* destroys it, as it does in the program.                                 *)
(***************************************************************************)
EXTENDS Integers, Sequences, FiniteSets

CONSTANTS Con,          \* the data constructors of the packed type
          ScalarBytes,  \* DataconInfo.scalar_bytes, a function on Con
          Fields        \* DataconInfo.field_tys: their number, a function on Con

ASSUME InfoTable ==
    /\ ScalarBytes \in [Con -> Nat]
    /\ Fields \in [Con -> Nat]

\* No constructor has a tag of the run-time system's (gibbon_rts.h, the reserved tags).
ASSUME TagsApart ==
    Con \cap {"garbage", "INDIRECTION", "REDIRECTION", "CAUTERIZED", "COPIED", "COPIED_TO",
              "nursery_footer", "footer"} = {}

GIB_PTR_ALIGN == 8
NurseryFooterBytes == 2     \* sizeof(GibNurseryChunkFooter)
FooterBytes == 24           \* sizeof(GibOldgenChunkFooter)
PtrBytes == 9               \* a tag and a pointer

u16(n) == n % 65536
AlignUp(n) == ((n + GIB_PTR_ALIGN - 1) \div GIB_PTR_ALIGN) * GIB_PTR_ALIGN

-----------------------------------------------------------------------------
\* What can be in memory.  A constructor carries its scalars as one id.
ConCell(c, id) == [tag |-> c, id |-> id]
PtrCell(t, to, offset) == [tag |-> t, to |-> to, offset |-> u16(offset)]
CauterizedCell(frame) == [tag |-> "CAUTERIZED", frame |-> frame]
CopiedCell == [tag |-> "COPIED"]
NurseryFooter(size) == [tag |-> "nursery_footer", size |-> size]
Footer(reg_info, size, next) ==
    [tag |-> "footer", reg_info |-> reg_info, size |-> size, next |-> next]

SizeOf(cell) ==
    CASE cell.tag \in Con -> 1 + ScalarBytes[cell.tag]
      [] cell.tag = "COPIED" -> 1
      [] cell.tag = "nursery_footer" -> NurseryFooterBytes
      [] cell.tag = "footer" -> FooterBytes
      [] OTHER -> PtrBytes

\* The tag an unaligned one-byte read finds at a: "garbage" where nothing was
\* written, and inside of a cell.
Tag(mem, a) == IF a \in DOMAIN mem THEN mem[a].tag ELSE "garbage"

\* write: the cell at a, and nothing any more where it overlaps.
Write(mem, a, cell) ==
    LET hit == {b \in DOMAIN mem : b < a + SizeOf(cell) /\ a < b + SizeOf(mem[b])}
    IN [b \in (DOMAIN mem \ hit) \cup {a} |-> IF b = a THEN cell ELSE mem[b]]

\* write_bytes(a, COPIED_TAG, n)
Burn(mem, a, n) ==
    LET hit == {b \in DOMAIN mem : b < a + n /\ a < b + SizeOf(mem[b])}
    IN [b \in (DOMAIN mem \ hit) \cup (a .. a + n - 1) |->
          IF b \in a .. a + n - 1 THEN CopiedCell ELSE mem[b]]

-----------------------------------------------------------------------------
\* The value at address a of a chunk that ends at footer e, as the compiled
\* program reads it: its constructors in preorder, each with the address it
\* was found at and the footer the reader believes in.  holes maps the write
\* cursors to their owners; a value under construction ends in one of them.
\* Fuel stops a walk through corrupted memory.
Token(t, id, a, e) == [tag |-> t, id |-> id, at |-> a, end |-> e]

Walk(mem, holes, start, footer, fuel) ==
    LET walk[n \in Nat, a \in Int, e \in Int, k \in Nat] ==
          LET tag == Tag(mem, a)
          IN IF k = 0 THEN <<>>
             ELSE IF a \in DOMAIN holes THEN <<Token("hole", holes[a], a, e)>>
             ELSE IF n = 0 THEN <<Token("garbage", 0, a, e)>>
             ELSE CASE tag \in Con ->
                         <<Token(tag, mem[a].id, a, e)>>
                         \o walk[n - 1, a + SizeOf(mem[a]), e, k - 1 + Fields[tag]]
                    [] tag = "INDIRECTION" ->
                         walk[n - 1, mem[a].to, mem[a].to + mem[a].offset, 1]
                         \o walk[n - 1, a + PtrBytes, e, k - 1]
                    [] tag = "REDIRECTION" ->
                         walk[n - 1, mem[a].to, mem[a].to + mem[a].offset, k]
                    [] OTHER -> <<Token("garbage", 0, a, e)>>
    IN walk[fuel, start, footer, 1]

\* What the program can tell of a value: the constructors and their scalars.
Contents(tokens) == [i \in DOMAIN tokens |-> <<tokens[i].tag, tokens[i].id>>]
=============================================================================
