--------------------------- MODULE MCSourceSample ----------------------------
(***************************************************************************)
(* Instances of SourceSample: small worlds with scaled ceilings, and one   *)
(* world under the ceilings of the code.                                   *)
(***************************************************************************)
EXTENDS SourceSample

file(p, b) == [path |-> p, blob |-> b, test |-> FALSE, lane |-> TRUE]
test(p, b) == [file(p, b) EXCEPT !.test = TRUE]
other(p, b) == [file(p, b) EXCEPT !.lane = FALSE]
tree(state, large, files) == [tree |-> state, large |-> large, files |-> files]

Small == {<<>>,
          <<tree("missing", 0, <<>>), tree("whole", 0, <<>>)>>,
          <<tree("whole", 2, <<file("a", 1), file("b", 2), test("t", 3)>>)>>,
          <<tree("whole", 0, <<file("a", 1), file("b", 1), file("c", 2)>>),
            tree("truncated", 0, <<other("d", 3)>>)>>,
          <<tree("whole", 0, <<test("t", 1), file("a", 2), file("b", 3)>>),
            tree("whole", 0, <<test("u", 4), file("c", 5)>>)>>}

content(size, kept, kind) == [size |-> size, kept |-> kept, kind |-> kind]
SmallBodies == {content(2, 2, "text"), content(2, 1, "text"), content(1, 1, "text"),
                content(3, 3, "text"), content(1, 1, "binary"), content(1, 1, "secrets")}
TextBodies == {content(12000, 6000, "text"), content(300, 300, "binary")}
AllPolicies == {[read |-> TRUE, write |-> TRUE], [read |-> FALSE, write |-> TRUE],
                [read |-> FALSE, write |-> FALSE]}
Default == {[read |-> TRUE, write |-> TRUE]}

\* A project with nine oversized files and twelve copies of one binary, and another
\* with three files.
Copies == {"01", "02", "03", "04", "05", "06", "07", "08"}
Crowded == {<<tree("whole", 9, <<file("k1", 1), file("k2", 1), file("k3", 1), file("k4", 1),
                                 file("k5", 1), file("k6", 1), file("k7", 1), file("k8", 1),
                                 file("m", 4)>>),
              tree("whole", 0, <<file("a", 2), file("b", 3)>>)>>}
=============================================================================
