----------------------------- MODULE MCPowlTrees -----------------------------
(* Small trees for the POWL modules. *)
EXTENDS Powl

Tree(nodes) == [p \in {n[1] : n \in nodes} |-> (CHOOSE n \in nodes : n[1] = p)[2]]
N(path, node) == <<path, node>>
Chain(n) == {<<i, i + 1>> : i \in 0 .. n - 2}

(* a before b and c, both before d, with b a chain of two inside *)
Diamond == Tree({N(<<>>, PartialOrder(4, {<<0,1>>, <<0,2>>, <<1,3>>, <<2,3>>}, 1, 1)),
                 N(<<0>>, Leaf("a")), N(<<1>>, PartialOrder(2, {<<0,1>>}, 1, 1)),
                 N(<<1,0>>, Leaf("b")), N(<<1,1>>, Leaf("bb")),
                 N(<<2>>, Leaf("c")), N(<<3>>, Leaf("d"))})
(* a partial order run once or twice, one of its children exactly twice *)
Rounds == Tree({N(<<>>, PartialOrder(2, {}, 1, 2)),
                N(<<0>>, PartialOrder(2, {<<0,1>>}, 2, 2)),
                N(<<0,0>>, Leaf("x")), N(<<0,1>>, Leaf("y")), N(<<1>>, Leaf("z"))})
(* a loop over edges, whose body is a partial order *)
LoopOver(edges) == Tree({N(<<>>, ChoiceGraph(4, edges, 0, 3, 1, 1)),
              N(<<0>>, Leaf("start")), N(<<1>>, PartialOrder(2, {}, 1, 1)),
              N(<<1,0>>, Leaf("l")), N(<<1,1>>, Leaf("r")),
              N(<<2>>, Leaf("redo")), N(<<3>>, Leaf("end"))})
(* two self-loops, and a loop back that the visit cap can strand *)
Loop == LoopOver({<<0,1>>, <<1,1>>, <<1,2>>, <<2,2>>, <<2,3>>, <<1,3>>})
Redo == LoopOver({<<0,1>>, <<1,2>>, <<2,1>>, <<1,3>>, <<1,1>>})
(* a choice beside a step, with a nested choice in one branch *)
Branches == Tree({N(<<>>, PartialOrder(3, {<<0,2>>}, 1, 1)),
                  N(<<0>>, ChoiceGraph(4, {<<0,1>>, <<0,2>>, <<1,2>>, <<1,3>>, <<2,3>>}, 0, 3, 1, 1)),
                  N(<<0,0>>, Leaf("s")), N(<<0,1>>, ChoiceGraph(2, {<<0,1>>}, 0, 1, 1, 1)),
                  N(<<0,1,0>>, Leaf("p")), N(<<0,1,1>>, Leaf("q")),
                  N(<<0,2>>, Leaf("t")), N(<<0,3>>, Leaf("e")),
                  N(<<1>>, Leaf("aside")), N(<<2>>, Leaf("after"))})
(* a choice graph inside a loop of another: the inner visits are shared *)
Nested == Tree({N(<<>>, ChoiceGraph(3, {<<0,1>>, <<1,1>>, <<1,2>>}, 0, 2, 1, 1)),
                N(<<0>>, Leaf("start")),
                N(<<1>>, ChoiceGraph(3, {<<0,1>>, <<1,1>>, <<1,2>>}, 0, 2, 1, Unbounded)),
                N(<<1,0>>, Leaf("in")), N(<<1,1>>, Leaf("work")), N(<<1,2>>, Leaf("out")),
                N(<<2>>, Leaf("end"))})
(* an order that may repeat without end, around an inner loop *)
Endless == Tree({N(<<>>, PartialOrder(2, {<<0,1>>}, 1, Unbounded)),
                 N(<<0>>, ChoiceGraph(3, {<<0,1>>, <<1,1>>, <<1,2>>}, 0, 2, 1, 1)),
                 N(<<0,0>>, Leaf("u")), N(<<0,1>>, Leaf("v")), N(<<0,2>>, Leaf("w")),
                 N(<<1>>, Leaf("x"))})
(* an order that runs against the numbering of its children *)
Against == Tree({N(<<>>, PartialOrder(3, {<<2,0>>, <<0,1>>}, 1, 1)),
                 N(<<0>>, Leaf("a")), N(<<1>>, Leaf("b")), N(<<2>>, Leaf("c"))})
(* two branches that begin with the same label *)
SameLabel == Tree({N(<<>>, ChoiceGraph(4, {<<0,1>>, <<0,2>>, <<1,3>>, <<2,3>>}, 0, 3, 1, 1)),
                   N(<<0>>, Leaf("start")), N(<<3>>, Leaf("end")),
                   N(<<1>>, PartialOrder(2, {<<0,1>>}, 1, 1)),
                   N(<<1,0>>, Leaf("check")), N(<<1,1>>, Leaf("repair")),
                   N(<<2>>, PartialOrder(2, {<<0,1>>}, 1, 1)),
                   N(<<2,0>>, Leaf("check")), N(<<2,1>>, Leaf("escalate"))})
(* steps that may run side by side, then one that waits for all of them *)
Parallel == Tree({N(<<>>, PartialOrder(4, {<<0,3>>, <<1,3>>, <<2,3>>}, 1, 1)),
                  N(<<0>>, PartialOrder(2, {<<0,1>>}, 1, 1)),
                  N(<<0,0>>, Leaf("read")), N(<<0,1>>, Leaf("check")),
                  N(<<1>>, Leaf("act")), N(<<2>>, Leaf("poll")), N(<<3>>, Leaf("end"))})
(* an exclusive choice between two steps *)
Exclusive == Tree({N(<<>>, ChoiceGraph(4, {<<0,1>>, <<0,2>>, <<1,3>>, <<2,3>>}, 0, 3, 1, 1)),
                   N(<<0>>, Leaf("read")), N(<<1>>, Leaf("act")),
                   N(<<2>>, Leaf("check")), N(<<3>>, Leaf("end"))})
(* the same steps with a loop back from the second *)
Looping == Tree({N(<<>>, ChoiceGraph(4, {<<0,1>>, <<1,1>>, <<1,2>>, <<2,1>>, <<2,3>>}, 0, 3, 1, 1)),
                 N(<<0>>, Leaf("read")), N(<<1>>, Leaf("act")),
                 N(<<2>>, Leaf("check")), N(<<3>>, Leaf("end"))})
(* an order walked twice: a chain of two and a step in parallel, a step    *)
(* after the chain, and a last one after both                              *)
TwiceAround == Tree({N(<<>>, PartialOrder(4, {<<0,1>>, <<1,3>>, <<2,3>>}, 2, 2)),
                     N(<<0>>, PartialOrder(2, {<<0,1>>}, 1, 1)),
                     N(<<0,0>>, Leaf("read")), N(<<0,1>>, Leaf("check")),
                     N(<<1>>, Leaf("poll")), N(<<2>>, Leaf("act")), N(<<3>>, Leaf("end"))})
(* concurrent orders inside a concurrent level *)
Wide == Tree({N(<<>>, PartialOrder(3, {<<0,2>>, <<1,2>>}, 1, 1)),
              N(<<0>>, PartialOrder(2, {}, 1, 1)),
              N(<<0,0>>, Leaf("read")), N(<<0,1>>, Leaf("act")),
              N(<<1>>, PartialOrder(2, {}, 1, 1)),
              N(<<1,0>>, Leaf("poll")), N(<<1,1>>, Leaf("check")),
              N(<<2>>, Leaf("end"))})
(* a step beside a loop that is optional or repeated *)
Beside == Tree({N(<<>>, PartialOrder(2, {}, 1, 1)), N(<<0>>, Leaf("read")),
                N(<<1>>, ChoiceGraph(3, {<<0,1>>, <<1,1>>, <<1,2>>}, 0, 2, 0, 2)),
                N(<<1,0>>, Leaf("poll")), N(<<1,1>>, Leaf("check")), N(<<1,2>>, Leaf("end"))})
(* a choice whose branches are chains *)
Chains == Tree({N(<<>>, ChoiceGraph(4, {<<0,1>>, <<0,2>>, <<1,3>>, <<2,3>>}, 0, 3, 1, 1)),
                N(<<0>>, Leaf("read")), N(<<3>>, Leaf("end")),
                N(<<1>>, PartialOrder(2, {<<0,1>>}, 1, 1)),
                N(<<1,0>>, Leaf("act")), N(<<1,1>>, Leaf("check")),
                N(<<2>>, PartialOrder(2, {<<0,1>>}, 1, 1)),
                N(<<2,0>>, Leaf("act")), N(<<2,1>>, Leaf("poll"))})
=============================================================================
