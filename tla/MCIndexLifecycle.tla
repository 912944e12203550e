-------------------------- MODULE MCIndexLifecycle --------------------------
(* Instances of IndexLifecycle.  Of the contents, body differs from base in *)
(* a function body only, bind in what the file publishes; junk does not     *)
(* parse, odd is broken.  The sibling, if it was indexed, differs from this *)
(* worktree by the body of one file.                                        *)
EXTENDS IndexLifecycle, TLC

CONSTANTS f, g, base, body, bind, junk, odd

SignatureOf == [c \in Contents |-> "s"]
BindingOf == [c \in Contents |-> IF c = bind THEN "b1" ELSE "b0"]
AllBase == [x \in Files |-> base]
MixedSibling == {NoSnapshot} \cup {[AllBase EXCEPT ![x] = body] : x \in Files}
OnlyBase == {AllBase}
Sources == [Files -> {base, body}]
SiblingSources == Sources \cup {NoSnapshot}
AnyFile == Permutations(Files)
=============================================================================
