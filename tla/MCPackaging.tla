---------------------------- MODULE MCPackaging ----------------------------
(* Studies for the runs: every graph of references between three stages    *)
(* is put to the order algorithm by the assumption below; the runs         *)
(* themselves get the shapes that differ in what they do with files.       *)
EXTENDS Packaging, TLC, Relation

CONSTANTS r1, r2, c1, c2, out, exe0, doc, a, mid, last, old, new

MCRun == {r1, r2}
MCCreator == {c1, c2}
MCFile == {exe0, doc, a, mid, last}
MCGiven == {old, new}
MCSymmetry == Permutations(MCGiven) \cup Permutations(MCCreator)
MCExisting == {exe0, doc, a}
MCEditable == {exe0, a}

Nothing(ids) == [s \in ids |-> <<>>]
Graph(declared, refs) ==
  LET ids == Range(declared) IN
  [declared |-> declared, refs |-> refs, source |-> doc, inputs |-> <<>>,
   late |-> [s \in ids |-> {}], fits |-> {}, reserved |-> Nothing(ids), writes |-> Nothing(ids)]

(* A stage that reads a and writes mid, listed after the one that reads    *)
(* mid and writes last, which is not a declared output.                    *)
Chain == [Graph(<<"y", "x">>, [x |-> {}, y |-> {"x"}]) EXCEPT
            !.inputs = <<a>>, !.late["y"] = {a, mid},
            !.reserved["x"] = <<mid>>, !.writes = [x |-> <<mid>>, y |-> <<last>>]]

(* A stage that reads what another, unrelated one has undeclared.          *)
Late == [Graph(<<"x", "y">>, [x |-> {}, y |-> {}]) EXCEPT
           !.late["x"] = {a}, !.writes = [x |-> <<last>>, y |-> <<a>>]]

Twice == [Graph(<<"x", "y">>, [x |-> {}, y |-> {"x"}]) EXCEPT
            !.writes = [x |-> <<mid>>, y |-> <<mid>>]]

TwiceReserved == [Twice EXCEPT !.reserved = [x |-> <<mid>>, y |-> <<mid>>]]

Replaces == [Graph(<<"x">>, [x |-> {}]) EXCEPT !.writes["x"] = <<exe0>>]

Diamond == [Graph(<<"z", "y", "x">>, [x |-> {}, y |-> {"x"}, z |-> {"x", "y"}]) EXCEPT
              !.fits = {"x", "y"}]
Ring == Graph(<<"x", "y", "z">>, [x |-> {"z"}, y |-> {"x"}, z |-> {"y"}])
Selfish == Graph(<<"x">>, [x |-> {"x"}])
Dangling == Graph(<<"x">>, [x |-> {"w"}])
Again == Graph(<<"x", "x">>, [x |-> {}])
Empty == Graph(<<>>, <<>>)

(* Publishes over an input of others that it does not read.                *)
Refresh == [Graph(<<"x">>, [x |-> {}]) EXCEPT !.writes["x"] = <<a>>]

MCOrder ==
  {[kind |-> "deployment", at |-> out, roles |-> <<a, exe0>>],
   [kind |-> "deployment", at |-> out, roles |-> <<mid, doc>>],
   [kind |-> "dossier", at |-> out, roles |-> <<a, doc>>],
   [kind |-> "target", at |-> out, roles |-> <<a, doc>>]}

MCStudies ==
  (r1 :> {Chain, Late, Twice, TwiceReserved, Replaces, Refresh, Diamond,
          Ring, Selfish, Dangling, Again, Empty})
  @@ (r2 :> {Chain})

ASSUME OrderIsRight ==
  \A refs \in [{"x", "y", "z"} -> SUBSET {"x", "y", "z"}] :
    LET st == Graph(<<"x", "y", "z">>, refs)
        closure == TransitiveClosure([p \in Ids(st) \X Ids(st) |-> p[2] \in refs[p[1]]], Ids(st))
    IN
      /\ \A s, t \in Ids(st) : t \in DependsOn(st, s) <=> closure[s, t]
      /\ WellFormed(st) <=> Acyclic(st)
      /\ WellFormed(st) => IsExecutionOrder(ExecutionOrder(st), st)
=============================================================================
