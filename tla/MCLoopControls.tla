--------------------------- MODULE MCLoopControls ---------------------------
(* Small functions for LoopControls: a while loop, a loop that is its own    *)
(* latch, a while loop laid out latch first, an endless loop, and two nested *)
(* loops that share an array.                                                *)
EXTENDS LoopControls

NoGroups == [g \in {} |-> {}]
Bare(v14, fpga, un, layout, loops, blocks) ==
  [v14 |-> v14, fpga |-> fpga, unstructured |-> un, layout |-> layout,
   loops |-> loops, blocks |-> blocks, array |-> [g \in {} |-> 0],
   groups |-> NoGroups, field |-> [a \in {} |-> 0]]
B(bb, geps, br, to, nodes) ==
  [bb |-> bb, geps |-> geps, br |-> br, to |-> to, nodes |-> nodes]
Exit == B("exit", <<>>, "return", <<>>, <<>>)
One(h, blocks) == [x \in {h} |-> blocks]

While(nodes)   == << B("h", <<>>, "cond", <<"l", "exit">>, <<>>),
                     B("l", <<>>, "uncond", <<"h">>, nodes), Exit >>
DoWhile(nodes) == << B("h", <<>>, "cond", <<"exit", "h">>, nodes), Exit >>
Rotated(nodes) == << B("e", <<>>, "uncond", <<"h">>, <<>>),
                     B("l", <<>>, "uncond", <<"h">>, nodes),
                     B("h", <<>>, "cond", <<"l", "exit">>, <<>>), Exit >>
Endless(nodes) == << B("h", <<>>, "uncond", <<"l">>, <<>>),
                     B("l", <<>>, "uncond", <<"h">>, nodes) >>

Plain == {Node(n, 0) : n \in {"unroll.disable", "unroll.enable", "unroll.full",
                              "ivdep.enable", "coalesce.enable", "fusion.disable"}}
Numbered == {Node(n, v) : n \in {"unroll.count", "coalesce.count"}, v \in {2, 3}}
              \cup {Node("unroll.count", 1)}
              \cup {Node(n, v) : n \in DOMAIN CountBit, v \in {0, 3}}
              \cup {Node("ivdep.safelen", 2)}
Counts == {Node("loopcount_min", 0), Node("loopcount_max", 6),
           Node("loopcount_max", 9), Node("loopcount_avg", 7)}
Alphabet == Plain \cup Numbered \cup Counts

(* Hints that contradict each other are left out: two unroll hints, except   *)
(* enable with a count above one, and two coalesce hints.                    *)
Family(n) == CASE n.name \in {"unroll.disable", "unroll.full", "unroll.count",
                              "unroll.enable"} -> "unroll"
               [] n.name \in {"coalesce.enable", "coalesce.count"} -> "coalesce"
               [] OTHER -> n.name
Compatible(n, k) ==
  \/ Family(n) # Family(k)
  \/ {n.name, k.name} = {"unroll.enable", "unroll.count"} /\ n.val + k.val > 1
Consistent(nodes) ==
  \A i, j \in DOMAIN nodes : i # j => Compatible(nodes[i], nodes[j])

Pairs == {s \in [1..2 -> Alphabet] : Consistent(s)}
Few == {Node("unroll.count", 2), Node("unroll.enable", 0), Node("ivdep.safelen", 2),
        Node("ii.count", 3), Node("coalesce.enable", 0), Node("loopcount_max", 6),
        Node("max_reinvocation_delay.count", 3)}
Triples == {s \in [1..3 -> Few] : Consistent(s)}

Single ==
  {Bare(v, TRUE, FALSE, While(n), <<"h">>, One("h", {"h", "l"})) :
     v \in BOOLEAN, n \in Pairs}
  \cup {Bare(TRUE, f, FALSE, DoWhile(n), <<"h">>, One("h", {"h"})) :
     f \in BOOLEAN, n \in Triples}
  \cup {Bare(TRUE, TRUE, u, lay, <<"h">>, One("h", {"h", "l"})) :
     u \in BOOLEAN,
     lay \in {Rotated(<<n>>) : n \in Few} \cup {Endless(<<n>>) : n \in Few}}

(* Arrays 8 and 9 (SPIR-V ids); pointer 10 names the same closure field as 9.*)
(* Chain c1 is in the outer loop only, c2 and c3 are in the inner one.       *)
Nested(outer, inner, joined) ==
  [Bare(TRUE, TRUE, FALSE,
     << B("o", <<"c1">>, "cond", <<"i", "exit">>, <<>>),
        B("i", <<"c2", "c3">>, "cond", <<"i", "l">>, inner),
        B("l", <<>>, "uncond", <<"o">>, outer), Exit >>,
     <<"o", "i">>, [h \in {"o", "i"} |-> IF h = "o" THEN {"o", "i", "l"} ELSE {"i"}])
   EXCEPT !.array  = [c \in {"c1", "c2", "c3"} |->
                        CASE c = "c1" -> 8 [] c = "c2" -> joined.second [] OTHER -> 9],
          !.groups = [c \in {"c1", "c2", "c3"} |->
                        CASE c = "c1" -> {"g1"}
                          [] c = "c2" -> joined.groups
                          [] OTHER -> {"g3"}],
          !.field  = [a \in {8, 9, 10} |-> IF a = 10 THEN 9 ELSE a]]
Nests ==
  {Nested(o, i, j) :
     o \in {<<Parallel({"g1"}, v)>> : v \in {0, 2}}
            \cup {<<Node("ii.count", 3), Parallel({"g1"}, 3), Parallel({"g3"}, 2)>>},
     i \in {<<Parallel({"g2", "g3"}, 2), Node("unroll.count", 2)>>,
            <<Parallel({"g2"}, 3), Parallel({"g3"}, 2)>>, <<Parallel({"g3"}, 1)>>},
     j \in {[second |-> 8, groups |-> {"g1", "g2"}],
            [second |-> 8, groups |-> {"g1"}]}}
  \cup {Nested(<<Node("ivdep.enable", 0)>>, <<Parallel({"g2", "g3"}, 2)>>,
               [second |-> 10, groups |-> {"g2"}])}

MCPrograms == Single \cup Nests
=============================================================================
