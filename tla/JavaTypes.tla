------------------------------ MODULE JavaTypes ------------------------------
(***************************************************************************)
(* The types of Java (JavaType in signature.rs): a type is its base and    *)
(* the number of its dimensions.  And what a function returns that may     *)
(* fail.                                                                   *)
(***************************************************************************)
EXTENDS Naturals

Letters == [boolean |-> "Z", byte |-> "B", char |-> "C", short |-> "S", int |-> "I",
            long |-> "J", float |-> "F", double |-> "D", void |-> "V"]
Words == DOMAIN Letters
Prims == Words \ {"void"}
LetterSet == {Letters[w] : w \in Words}
WordOf(letter) == CHOOSE w \in Words : Letters[w] = letter

\* JavaType: a primitive or void, or a class with its name
Prim(w) == [base |-> w, name |-> <<>>, dims |-> 0]
ObjectType(name) == [base |-> "object", name |-> name, dims |-> 0]
ArrayOf(t) == [t EXCEPT !.dims = @ + 1]
Void == Prim("void")
IsReference(t) == t.dims > 0 \/ t.base = "object"

Failed == [ok |-> FALSE]
Parsed(v) == [ok |-> TRUE, value |-> v]
\* Rust's question mark
AndThen(result, Then(_)) == IF result.ok THEN Then(result.value) ELSE Failed
=============================================================================
