----------------------------- MODULE ProductConfig -----------------------------
(* The product's runtime configuration (runtime/include/topo/config_model.h and  *)
(* config.h): the layers b, a and c of a ConfigStore, the checks of set(), and   *)
(* the file topo-app.toml that ProductConfig loads the external layer from and   *)
(* writes it back to.  Several programs, and the user's editor, share the file.  *)
(*                                                                               *)
(* A key is the sequence of its dotted parts.  A value is a scalar, of which     *)
(* only what the file format makes of it matters, or a record of scalars.        *)
EXTENDS Integers, Sequences, SequencesExt, Functions

CONSTANTS
    Programs,      \* ProductConfig objects
    Keys,          \* keys of the product
    BuildKeys,     \* keys whose first part is a section of Topo.toml
    Fields,        \* field names of records
    Protected,     \* keys a policy of impact HIGH may be declared for
    Injectable,    \* keys the code may inject a value for
    Edits,         \* what the user may save as topo-app.toml
    MaxSets,       \* bound: calls of set() in one behaviour
    MaxSaves,      \* bound: edits of the file in one behaviour
    None

(* "nine" is an integer of nine digits and a minus sign, or a float as long;     *)
(* "inf" is an infinity or a NaN; a datetime and an object have no bridge type.  *)
Unbridged == {"datetime", "object"}
Tokens == {"one", "two", "nine", "inf"} \cup Unbridged

Scalar(text) == [kind |-> "scalar", text |-> text]
Record(f) == [kind |-> "record", fields |-> f]
PartialMaps(S, T) == UNION {[D -> T] : D \in SUBSET S}
Values == {Scalar(t) : t \in Tokens} \cup {Record(f) : f \in PartialMaps(Fields, {"one", "datetime"})}
NoKeys == [k \in {} |-> None]

(* A path of the file may be no key of the product, and may be one of a build.    *)
Paths == Seq(STRING) \ {<<>>}
IsFile(f) == DOMAIN f \subseteq Paths /\ f \in [DOMAIN f -> Tokens]
IsLayer(l) == DOMAIN l \subseteq Paths /\ l \in [DOMAIN l -> Values]

ASSUME KeyAssumption == Keys \subseteq Paths /\ Keys \cap BuildKeys = {} /\ Fields \subseteq STRING
ASSUME SubsetAssumption == Protected \subseteq Keys /\ Injectable \subseteq Keys
ASSUME EditAssumption == \A e \in Edits : IsFile(e) /\ "object" \notin Range(e)
ASSUME BoundAssumption == MaxSets \in Nat /\ MaxSaves \in Nat

Errors == {"BuildConfigKeyError", "UnbridgedValueError", "WriteProtectionError", "runtime_error"}
ASSUME NoneAssumption == None \notin Errors \cup {"ok"}

VARIABLES
    file,          \* topo-app.toml: path -> text of the value; absent like empty
    layers,        \* per program: [inlined, external, injected]
    high,          \* per program: the keys its store holds a policy of impact HIGH for
    hasPath,       \* per program: it was built by from_file()
    pc,            \* per program: "none", "idle", "open", "write"
    lastSet,       \* per program: the set() in progress or last returned
    outcome,       \* per program: what that returned or threw
    sets, edits

configVars == <<file, layers, high, hasPath, pc, lastSet, outcome, sets, edits>>

--------------------------------------------------------------------------------
(* split_nested() and emit_toml(): dotted keys become tables.  A key below one   *)
(* that holds no table finds no place in the tree and is not printed.  A record  *)
(* of a layer carries no inline marker, so it is printed as a table of its own:  *)
(* its fields become keys, and nothing is left of an empty one.                  *)
Below(p, k) == IsStrictPrefix(p, k)
Leaf(layer, p) ==
    \/ p \in DOMAIN layer /\ layer[p].kind = "scalar"
    \/ \E q \in DOMAIN layer : layer[q].kind = "record" /\ \E f \in DOMAIN layer[q].fields : p = Append(q, f)
Printed(layer) == {k \in DOMAIN layer : \A i \in 1 .. Len(k) - 1 : ~Leaf(layer, SubSeq(k, 1, i))}

FieldsOf(layer, k) == IF layer[k].kind = "record" THEN {Append(k, f) : f \in DOMAIN layer[k].fields} ELSE {}
emit_toml(layer) ==
    LET scalars == {k \in Printed(layer) : layer[k].kind = "scalar"}
        fields == UNION {FieldsOf(layer, k) : k \in Printed(layer)}
    IN  [p \in scalars \cup fields |->
            IF p \in scalars THEN layer[p].text ELSE layer[Front(p)].fields[Last(p)]]

(* toml_scalar() throws for what the model should have rejected. *)
SerialiseThrows(layer) == Range(emit_toml(layer)) \cap Unbridged # {}

(* parse_toml(), parse_scalar_token(): ten characters of digits and a dash look  *)
(* like a date; "inf" and "nan" are no numbers.                                  *)
ParseThrows(f) == "inf" \in Range(f)
parse_scalar_token(t) == IF t = "nine" THEN Scalar("datetime") ELSE Scalar(t)
IgnoresSections(f) ==      \* mutant: keys are not prefixed by their section
    [p \in {<<Last(q)>> : q \in DOMAIN f} |->
        parse_scalar_token(f[CHOOSE q \in DOMAIN f : <<Last(q)>> = p])]
parse_toml(f) == [p \in DOMAIN f |-> parse_scalar_token(f[p])]

--------------------------------------------------------------------------------
(* LayeredConfig::resolve(): the most explicit layer that has the key. *)
resolve(p, k) ==
    LET l == layers[p]
    IN  CASE k \in DOMAIN l.injected -> l.injected[k]
          [] k \notin DOMAIN l.injected /\ k \in DOMAIN l.external -> l.external[k]
          [] k \notin DOMAIN l.injected \cup DOMAIN l.external /\ k \in DOMAIN l.inlined -> l.inlined[k]
          [] OTHER -> None

(* stdlib_type_of() looks into records too. *)
Bridged(v) == IF v.kind = "scalar" THEN v.text \notin Unbridged
              ELSE Range(v.fields) \cap Unbridged = {}

(* A program builds its configuration, with or without a file; what it inlines   *)
(* and injects is in the code.  from_file() is given policies as the constructor *)
(* is, and drops them: it replaces the store by one without any.                 *)
Construct(p, injected, policies) ==
    /\ pc[p] = "none"
    /\ \E withFile \in BOOLEAN :
         /\ withFile => ~ParseThrows(file)
         /\ hasPath' = [hasPath EXCEPT ![p] = withFile]
         /\ high' = [high EXCEPT ![p] = IF withFile THEN {} ELSE policies]
         /\ layers' = [layers EXCEPT ![p] =
                [inlined |-> [k \in Keys |-> Scalar("two")], injected |-> injected,
                 external |-> IF withFile THEN parse_toml(file) ELSE NoKeys]]
    /\ pc' = [pc EXCEPT ![p] = "idle"]
    /\ outcome' = [outcome EXCEPT ![p] = None]
    /\ UNCHANGED <<file, lastSet, sets, edits>>

declare(p, k) ==
    /\ pc[p] = "idle" /\ k \notin high[p]
    /\ high' = [high EXCEPT ![p] = @ \cup {k}]
    /\ UNCHANGED <<file, layers, hasPath, pc, lastSet, outcome, sets, edits>>

(* ConfigStore::set(): three checks in this order, then the layer changes; a     *)
(* program with a file goes on to write it.                                      *)
Rejected(p, k, v, level) ==
    CASE k \in BuildKeys -> "BuildConfigKeyError"
      [] k \notin BuildKeys /\ ~Bridged(v) -> "UnbridgedValueError"
      [] k \notin BuildKeys /\ Bridged(v) /\ k \in high[p] /\ level < 1 -> "WriteProtectionError"
      [] OTHER -> None

WritesBeforeItChecks(p, k, v, level) ==      \* mutant: the protection is checked last
    /\ pc[p] = "idle" /\ sets < MaxSets
    /\ sets' = sets + 1
    /\ lastSet' = [lastSet EXCEPT ![p] = [key |-> k, value |-> v, file |-> file, external |-> layers[p].external]]
    /\ outcome' = [outcome EXCEPT ![p] = IF Rejected(p, k, v, level) # None THEN Rejected(p, k, v, level) ELSE "ok"]
    /\ layers' = [layers EXCEPT ![p].external =
            IF k \in BuildKeys \/ ~Bridged(v) THEN @ ELSE [x \in DOMAIN @ \cup {k} |-> IF x = k THEN v ELSE @[x]]]
    /\ UNCHANGED <<file, high, hasPath, pc, edits>>
set(p, k, v, level) ==
    /\ pc[p] = "idle" /\ sets < MaxSets
    /\ sets' = sets + 1
    /\ lastSet' = [lastSet EXCEPT ![p] = [key |-> k, value |-> v, file |-> file, external |-> layers[p].external]]
    /\ IF Rejected(p, k, v, level) # None
         THEN /\ outcome' = [outcome EXCEPT ![p] = Rejected(p, k, v, level)]
              /\ UNCHANGED <<layers, pc>>
         ELSE /\ layers' = [layers EXCEPT ![p].external =
                    [x \in DOMAIN @ \cup {k} |-> IF x = k THEN v ELSE @[x]]]
              /\ pc' = [pc EXCEPT ![p] = IF hasPath[p] THEN "open" ELSE "idle"]
              /\ outcome' = [outcome EXCEPT ![p] = IF hasPath[p] THEN None ELSE "ok"]
    /\ UNCHANGED <<file, high, hasPath, edits>>

(* write_external(): the file is truncated when it is opened, which may fail     *)
(* without a word; only then is its new content computed.                        *)
Open(p) ==
    /\ pc[p] = "open"
    /\ \/ file' = NoKeys /\ pc' = [pc EXCEPT ![p] = "write"] /\ UNCHANGED outcome
       \/ /\ pc' = [pc EXCEPT ![p] = "idle"] /\ UNCHANGED file
          /\ outcome' = [outcome EXCEPT ![p] =
                IF SerialiseThrows(layers[p].external) THEN "runtime_error" ELSE "ok"]
    /\ UNCHANGED <<layers, high, hasPath, lastSet, sets, edits>>

Write(p) ==
    /\ pc[p] = "write"
    /\ pc' = [pc EXCEPT ![p] = "idle"]
    /\ IF SerialiseThrows(layers[p].external)
         THEN outcome' = [outcome EXCEPT ![p] = "runtime_error"] /\ UNCHANGED file
         ELSE /\ outcome' = [outcome EXCEPT ![p] = "ok"]
              /\ file' = emit_toml(layers[p].external)
    /\ UNCHANGED <<layers, high, hasPath, lastSet, sets, edits>>

(* The program ends, at any step; the user saves the file. *)
Ends(p) ==
    /\ pc[p] # "none"
    /\ pc' = [pc EXCEPT ![p] = "none"]
    /\ layers' = [layers EXCEPT ![p] = [inlined |-> NoKeys, external |-> NoKeys, injected |-> NoKeys]]
    /\ high' = [high EXCEPT ![p] = {}] /\ hasPath' = [hasPath EXCEPT ![p] = FALSE]
    /\ lastSet' = [lastSet EXCEPT ![p] = None] /\ outcome' = [outcome EXCEPT ![p] = None]
    /\ UNCHANGED <<file, sets, edits>>

Edit ==
    /\ edits < MaxSaves
    /\ edits' = edits + 1
    /\ file' \in Edits
    /\ UNCHANGED <<layers, high, hasPath, pc, lastSet, outcome, sets>>

ConfigInit ==
    /\ file = NoKeys
    /\ layers = [p \in Programs |-> [inlined |-> NoKeys, external |-> NoKeys, injected |-> NoKeys]]
    /\ high = [p \in Programs |-> {}] /\ hasPath = [p \in Programs |-> FALSE]
    /\ pc = [p \in Programs |-> "none"]
    /\ lastSet = [p \in Programs |-> None] /\ outcome = [p \in Programs |-> None]
    /\ sets = 0 /\ edits = 0

ConfigNext ==
    \/ Edit
    \/ \E p \in Programs :
         \/ Open(p) \/ Write(p) \/ Ends(p)
         \/ \E k \in Protected : declare(p, k)
         \/ \E D \in SUBSET Injectable, h \in SUBSET Protected : Construct(p, [k \in D |-> Scalar("two")], h)
         \/ \E k \in Keys \cup BuildKeys, v \in Values \ {Scalar("two")}, level \in {0, 1} : set(p, k, v, level)

ConfigSpec == ConfigInit /\ [][ConfigNext]_configVars

--------------------------------------------------------------------------------
(* Every variable stays in its type: the file and the layers hold whole values.   *)
ConfigTypeOK ==
    /\ IsFile(file)
    /\ layers = [p \in Programs |-> [inlined |-> layers[p].inlined, external |-> layers[p].external,
                                      injected |-> layers[p].injected]]
    /\ \A p \in Programs : IsLayer(layers[p].inlined) /\ IsLayer(layers[p].external) /\ IsLayer(layers[p].injected)
    /\ high \in [Programs -> SUBSET Protected] /\ hasPath \in [Programs -> BOOLEAN]
    /\ pc \in [Programs -> {"none", "idle", "open", "write"}]
    /\ outcome \in [Programs -> Errors \cup {None, "ok"}]
    /\ DOMAIN lastSet = Programs
    /\ sets \in 0 .. MaxSets /\ edits \in 0 .. MaxSaves

(* config_model.h:594-596: of the three checks of set(), each leaves the layer   *)
(* as it was when it rejects, whatever the others would have said.  And after a  *)
(* set() that returns, the next get() of the key has the value, unless the code  *)
(* injects another: what the file held, and what is inlined, is below.           *)
RejectedSetChangesNothing ==
    \A p \in Programs : outcome[p] \in Errors \ {"runtime_error"} =>
        layers[p].external = lastSet[p].external
NextGetSeesTheSet ==
    \A p \in Programs : outcome[p] = "ok" /\ lastSet[p].key \notin DOMAIN layers[p].injected =>
        resolve(p, lastSet[p].key) = lastSet[p].value
SetIsAllOrNothing == RejectedSetChangesNothing /\ NextGetSeesTheSet

(* The layers whose file reads back as they are: no records, no key below a key, *)
(* and no number that prints as something else.                                  *)
Plain(layer) ==
    /\ \A k \in DOMAIN layer : layer[k].kind = "scalar" /\ layer[k].text \notin {"nine", "inf"}
    /\ \A j, k \in DOMAIN layer : ~Below(j, k)

(* What write_external() leaves on disk is, to the next from_file(), the layer   *)
(* it was written from, exactly when the layer is plain: any sequence of sets    *)
(* and reloads of plain values is kept, and no other layer survives the file.    *)
ReadsBackAsWritten ==
    [][\A p \in Programs : Write(p) /\ outcome'[p] = "ok" =>
           LET layer == layers[p].external
           IN  (~ParseThrows(file') /\ parse_toml(file') = layer) <=> Plain(layer)]_configVars

(* config_model.h:594-596 says of set() that "a rejected write never leaves a    *)
(* partial state".                                                               *)
FailedSetLeavesTheFile ==
    [][\A p \in Programs : Write(p) /\ outcome'[p] # "ok" => file' = lastSet[p].file]_configVars
================================================================================
