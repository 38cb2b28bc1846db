------------------------------- MODULE DebugLayout -------------------------------
(* What the debug adapter computes from its arguments and from DWARF             *)
(* (topo-debug/adapter.cpp): the shape and strides of an array, and the fields   *)
(* of a struct leaf.  The properties compare the answers with what the CLI needs *)
(* of them.                                                                      *)
EXTENDS Requests, Integers, Sequences, SequencesExt, FiniteSets

CONSTANTS
    Dims,          \* array bounds a type may declare; zero-length arrays are a GNU extension
    MaxDims,       \* bound: dimensions of an array
    LeafSizes,     \* byte sizes of leaf types; 0 for a Rust unit type
    FieldOffsets,  \* where DWARF may place a member
    FieldSizes,    \* byte sizes of members
    MaxFields,     \* bound: members of a struct
    None

ASSUME SizeAssumption ==
    /\ Dims \subseteq Nat /\ LeafSizes \subseteq Nat
    /\ FieldOffsets \subseteq Nat /\ FieldSizes \subseteq Nat \ {0}
    /\ {MaxDims, MaxFields} \subseteq Nat

(* A type: its array bounds, outermost first, around a leaf of some size.        *)
UpTo(S, n) == UNION {[1 .. k -> S] : k \in 0 .. n}
ArrayTypes == [dims : UpTo(Dims, MaxDims), leaf : LeafSizes]

(* A member: basicTypeToDtype() maps it, or it is a bitfield, aggregate, pointer *)
(* or another unmapped type.                                                     *)
Members == [offset : FieldOffsets, size : FieldSizes, primitive : BOOLEAN]
StructTypes == UpTo(Members, MaxFields)

ArrayRequests == [kind : {"array"}, type : ArrayTypes]
StructRequests == [kind : {"struct"}, members : StructTypes]
LayoutRequests == ArrayRequests \cup StructRequests

--------------------------------------------------------------------------------
(* The running product over the innermost dimensions, 0 of them to all. *)
RunningProduct(s, unit) ==
    LET acc[k \in 0 .. Len(s)] == IF k = 0 THEN unit ELSE s[Len(s) + 1 - k] * acc[k - 1]
    IN  acc
Below(dims, i) == SubSeq(dims, i + 1, Len(dims))

(* unwrapArrayShape(): bounds recovered as ratios of byte sizes.  A zero-size    *)
(* element stops the walk; `rest` are the bounds left in the type it returns.    *)
unwrapArrayShape(dims, leaf) ==
    LET elemSize(i) == RunningProduct(dims, leaf)[Len(dims) - i]
        stops == {i \in DOMAIN dims : elemSize(i) = 0}
        last == IF stops = {} THEN Len(dims)
                ELSE CHOOSE i \in stops : \A j \in stops : i <= j
    IN  [shape |-> [i \in 1 .. last |->
                      IF i \in stops THEN 0
                      ELSE elemSize(i - 1) \div elemSize(i)],
         rest  |-> Below(dims, last)]

(* rowMajorStrides(): the running product, from the innermost dimension out. *)
ColumnMajor(shape, elemSize) ==      \* mutant: the loop runs upward
    [i \in DOMAIN shape |-> RunningProduct(Reverse(shape), elemSize)[i - 1]]
rowMajorStrides(shape, elemSize) ==
    [i \in DOMAIN shape |-> RunningProduct(shape, elemSize)[Len(shape) - i]]

(* The variable loop of main() for an array: rejected unless a leaf is left that *)
(* has a dtype, which a type of no size and an array do not.                     *)
DescribeArray(t) ==
    LET u == unwrapArrayShape(t.dims, t.leaf)
    IN  IF u.rest # <<>> \/ t.leaf = 0 THEN None
        ELSE [shape |-> u.shape, strides |-> rowMajorStrides(u.shape, t.leaf),
              bytes |-> RunningProduct(t.dims, t.leaf)[Len(t.dims)]]

--------------------------------------------------------------------------------
(* tryBuildStructBlock(): members in DWARF order, each past the end of the one   *)
(* before it, all primitive, at least one.                                       *)
Overlays(members, i) ==
    i > 1 /\ members[i].offset < members[i - 1].offset + members[i - 1].size

tryBuildStructBlock(members) ==
    IF members = <<>> \/ \E i \in DOMAIN members : ~members[i].primitive \/ Overlays(members, i)
      THEN None
      ELSE [i \in DOMAIN members |-> [offset |-> members[i].offset, size |-> members[i].size]]

--------------------------------------------------------------------------------
LayoutAnswer(r) ==
    CASE r.kind = "array"  -> <<DescribeArray(r.type)>>
      [] r.kind = "struct" -> <<tryBuildStructBlock(r.members)>>

Lay == Answer({"array", "struct"}, LayoutAnswer(request))
LayoutSpec == request \in LayoutRequests /\ reply = <<>> /\ [][Lay]_<<request, reply>>

--------------------------------------------------------------------------------
(* The CLI can index what it was sent with nothing but the descriptor: the shape *)
(* of an accepted variable is the declared one, its elements fill the payload,   *)
(* and its strides put every element inside of it and behind the elements that   *)
(* precede it in C's order, no two sharing a byte.  The fields of an accepted    *)
(* struct do not share a byte, so that a union is never described as a struct.   *)
Accepted(kind) == Answered(kind) /\ reply[1] # None
Elements(shape) == RunningProduct(shape, 1)[Len(shape)]
Indices(shape) ==
    {x \in [DOMAIN shape -> UNION {0 .. n - 1 : n \in Dims}] : \A d \in DOMAIN shape : x[d] < shape[d]}
Precedes(x, y) == \E d \in DOMAIN x : x[d] < y[d] /\ \A e \in 1 .. d - 1 : x[e] = y[e]
InnerOffset(x, strides) ==      \* over the innermost dimensions, 0 of them to all
    LET sum[k \in 0 .. Len(strides)] ==
          IF k = 0 THEN 0 ELSE x[Len(strides) + 1 - k] * strides[Len(strides) + 1 - k] + sum[k - 1]
    IN  sum
Offset(x, strides) == InnerOffset(x, strides)[Len(strides)]

LayoutAddressesPayload ==
    Accepted("array") =>
        LET a == reply[1]
            elem == request.type.leaf
        IN  /\ a.shape = request.type.dims /\ Elements(a.shape) * elem = a.bytes
            /\ \A x \in Indices(a.shape) : Offset(x, a.strides) + elem <= a.bytes
            /\ \A x, y \in Indices(a.shape) :
                  Precedes(x, y) => Offset(x, a.strides) + elem <= Offset(y, a.strides)
FieldsAreDisjoint ==
    Accepted("struct") =>
        \A i, j \in DOMAIN reply[1] : i < j =>
            reply[1][i].offset + reply[1][i].size <= reply[1][j].offset
DescriptorFitsPayload == LayoutAddressesPayload /\ FieldsAreDisjoint
================================================================================
