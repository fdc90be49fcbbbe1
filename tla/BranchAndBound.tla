--------------------------- MODULE BranchAndBound ---------------------------
(***************************************************************************)
(* The compiler's minimiser.  A problem has parameters 1..n, parameter i   *)
(* with the values 0..ranges[i]-1, and edges between parameters that must  *)
(* be optimised jointly.  The callback bounds the lowest objective value   *)
(* below a vector in which some parameters are defined.                    *)
(*                                                                         *)
(* The outer loop splits the graph of parameters into connected            *)
(* components, and a component whose search outgrows the work list by      *)
(* taking out one vertex; the inner loop searches one component.           *)
(* Subgraphs keep all edges between their vertices, so that a graph is a   *)
(* set of parameters here.  The callbacks of one iteration run on the      *)
(* thread pool, whose MapToList keeps their order (module ThreadPool).     *)
(***************************************************************************)
EXTENDS Integers, Sequences, FiniteSets, SequencesExt, FiniteSetsExt

CONSTANTS BoundCallback(_, _),  \* problem, values of the defined parameters: [lower, upper]
          MaxWorkListSize,
          WordBits,             \* width of a word of the compressed vectors
          SizeMax               \* std::numeric_limits<size_t>::max()

VARIABLES problem,              \* [ranges, edges]
          pc,                   \* "sparse", "search" or "found"
          graphs,               \* the outer loop's work list
          optimalValues,        \* values found so far, of some parameters
          maxSearchSpaceSize,   \* larger graphs are not worth a try
          parametersToOptimize, \* the component being searched
          workList,             \* its vectors with their bounds
          best

searchVars == <<problem, pc, graphs, optimalValues, maxSearchSpaceSize,
                parametersToOptimize, workList, best>>
-----------------------------------------------------------------------------
(* Vectors of parameters, packed into words: every parameter has as many   *)
(* bits as its range needs, none with a range of one, and crosses no word. *)
Log2RoundUp(n) == CHOOSE k \in 0..n : 2^k >= n /\ (k = 0 \/ 2^(k - 1) < n)

CreateCodeBook(ranges) ==
    LET Add(cb, range) ==
            LET bits == Log2RoundUp(range)
                fits == cb.remaining >= bits
                left == IF fits THEN cb.remaining ELSE WordBits
                word == IF fits THEN cb.numWords ELSE cb.numWords + 1
            IN  [numWords |-> word, remaining |-> left - bits,
                 entries |-> Append(cb.entries, [wordIndex |-> word, shift |-> WordBits - left,
                                                 bits |-> bits])]
    IN  FoldLeft(Add, [numWords |-> 0, remaining |-> 0, entries |-> <<>>], ranges)

Vector(cb) == [words |-> [k \in 1..cb.numWords |-> 0], valid |-> {}]

GetParameter(cb, v, i) ==
    LET cbe == cb.entries[i]
    IN  IF cbe.bits = 0 THEN 0
        ELSE (v.words[cbe.wordIndex] \div 2^cbe.shift) % 2^cbe.bits

SetParameter(cb, v, i, value) ==
    LET cbe == cb.entries[i]
        old == GetParameter(cb, v, i)
    IN  [valid |-> v.valid \cup {i},
         words |-> IF cbe.bits = 0 THEN v.words
                   ELSE [v.words EXCEPT ![cbe.wordIndex] = @ + (value - old) * 2^cbe.shift]]

Values(cb, v) == [i \in v.valid |-> GetParameter(cb, v, i)]
-----------------------------------------------------------------------------
(* The graph. *)
Neighbours(i) == {j \in DOMAIN problem.ranges : {i, j} \in problem.edges}

Component(graph, i) ==
    LET reach[n \in Nat] == IF n = 0 THEN {i}
                            ELSE reach[n - 1] \cup (graph \cap UNION {Neighbours(j) :
                                                                        j \in reach[n - 1]})
    IN  reach[Cardinality(graph)]

Components(graph) == {Component(graph, i) : i \in graph}

(* Those whose removal leaves more than one component (Boost's definition  *)
(* for a connected graph).                                                 *)
ArticulationPoints(graph) == {i \in graph : Cardinality(Components(graph \ {i})) > 1}

(* A vertex of the largest degree, of the articulation points if there are *)
(* any.  Of several the last is taken, in the order of the vertices or in  *)
(* the order, not specified, in which Boost reports articulation points.   *)
VerticesToRemove(graph) ==
    LET points     == ArticulationPoints(graph)
        candidates == IF points = {} THEN graph ELSE points
        degree(i)  == Cardinality(Neighbours(i) \cap graph)
        largest    == {i \in candidates : \A j \in candidates : degree(j) <= degree(i)}
    IN  IF points = {} THEN {Max(largest)} ELSE largest

RemoveVertex(graph, otherGraphs) ==
    \E i \in VerticesToRemove(graph) :
        graphs' = otherGraphs \o <<graph \ {i}, {i}>>

LogSearchSpaceSize(graph) == MapThenSumSet(LAMBDA i : problem.ranges[i], graph)
-----------------------------------------------------------------------------
(* The outer loop, IntegerBranchAndBoundSparse. *)
SearchInit ==
    /\ pc = "sparse"
    /\ graphs = IF problem.ranges = <<>> THEN <<>> ELSE <<DOMAIN problem.ranges>>
    /\ optimalValues = <<>>
    /\ maxSearchSpaceSize = SizeMax
    /\ parametersToOptimize = {}
    /\ workList = <<>>
    /\ best = [value |-> SizeMax, parameters |-> Vector(CreateCodeBook(problem.ranges))]

DecomposeConnectedComponents ==
    /\ pc = "sparse" /\ graphs # <<>>
    /\ LET components == Components(Head(graphs))
       IN  /\ Cardinality(components) > 1
           /\ graphs' = Tail(graphs) \o SetToSortSeq(components, LAMBDA g, h : Min(g) < Min(h))
    /\ UNCHANGED <<problem, pc, optimalValues, maxSearchSpaceSize, parametersToOptimize,
                   workList, best>>

Tractable(graph) ==
    LogSearchSpaceSize(graph) < maxSearchSpaceSize \/ Cardinality(graph) = 1

Entry(v) == [parameters |-> v,
             bounds |-> BoundCallback(problem, Values(CreateCodeBook(problem.ranges), v))]

(* IntegerBranchAndBoundImpl up to its loop: the work list starts with the *)
(* vector of the values found before.                                      *)
BeginSearch ==
    /\ pc = "sparse" /\ graphs # <<>>
    /\ Cardinality(Components(Head(graphs))) = 1 /\ Tractable(Head(graphs))
    /\ pc' = "search" /\ graphs' = Tail(graphs) /\ parametersToOptimize' = Head(graphs)
    /\ LET cb   == CreateCodeBook(problem.ranges)
           seed == FoldSet(LAMBDA i, v : SetParameter(cb, v, i, optimalValues[i]),
                           Vector(cb), DOMAIN optimalValues)
       IN  /\ workList' = <<Entry(seed)>>
           /\ best' = [value |-> SizeMax, parameters |-> Vector(cb)]
    /\ UNCHANGED <<problem, optimalValues, maxSearchSpaceSize>>

(* As large as one that was given up, so it is split at once. *)
SplitUntried ==
    /\ pc = "sparse" /\ graphs # <<>>
    /\ Cardinality(Components(Head(graphs))) = 1 /\ ~Tractable(Head(graphs))
    /\ RemoveVertex(Head(graphs), Tail(graphs))
    /\ UNCHANGED <<problem, pc, optimalValues, maxSearchSpaceSize, parametersToOptimize,
                   workList, best>>

Found ==
    /\ pc = "sparse" /\ graphs = <<>>
    /\ pc' = "found"
    /\ UNCHANGED <<problem, graphs, optimalValues, maxSearchSpaceSize, parametersToOptimize,
                   workList, best>>
-----------------------------------------------------------------------------
(* The inner loop, IntegerBranchAndBoundImpl. *)
Exceeded == Len(workList) > MaxWorkListSize /\ Cardinality(parametersToOptimize) > 1

GiveUp ==
    /\ pc = "search" /\ workList # <<>> /\ Exceeded
    /\ pc' = "sparse"
    /\ maxSearchSpaceSize' = LogSearchSpaceSize(parametersToOptimize)
    /\ RemoveVertex(parametersToOptimize, graphs)
    /\ workList' = <<>>
    /\ UNCHANGED <<problem, optimalValues, parametersToOptimize, best>>

AllDefined(v) == parametersToOptimize \subseteq v.valid

(* The undefined parameter with the smallest range, the first of several. *)
SelectParameterToDefine(v) ==
    LET undefined == parametersToOptimize \ v.valid
        range(i)  == problem.ranges[i]
    IN  Min({i \in undefined : \A j \in undefined : range(i) <= range(j)})

Refinements(v) ==
    LET i == SelectParameterToDefine(v)
    IN  [k \in 1..problem.ranges[i] |->
            Entry(SetParameter(CreateCodeBook(problem.ranges), v, i, k - 1))]

ShouldFilter(bounds, lowestUpper) ==
    bounds.lower > lowestUpper \/ bounds.lower >= best.value

(* One iteration: what cannot be better is dropped, complete vectors       *)
(* compete for the best, and of the others those are refined that may      *)
(* change the lowest bounds.                                               *)
Iterate ==
    /\ pc = "search" /\ workList # <<>> /\ ~Exceeded
    /\ LET lowestLower == Min({wle.bounds.lower : wle \in ToSet(workList)})
           lowestUpper == Min({wle.bounds.upper : wle \in ToSet(workList)})
           remaining   == SelectSeq(workList, LAMBDA wle : ~ShouldFilter(wle.bounds, lowestUpper))
           complete    == SelectSeq(remaining, LAMBDA wle : AllDefined(wle.parameters))
           partial     == SelectSeq(remaining, LAMBDA wle : ~AllDefined(wle.parameters))
           Refine(wle) == wle.bounds.lower = lowestLower \/ wle.bounds.upper = lowestUpper
           toRefine    == SelectSeq(partial, Refine)
       IN  /\ best' = FoldLeft(LAMBDA b, wle : IF wle.bounds.lower < b.value
                                               THEN [value |-> wle.bounds.lower,
                                                     parameters |-> wle.parameters]
                                               ELSE b,
                               best, complete)
           /\ workList' = SelectSeq(partial, LAMBDA wle : ~Refine(wle))
                            \o FlattenSeq([k \in 1..Len(toRefine) |->
                                              Refinements(toRefine[k].parameters)])
    /\ UNCHANGED <<problem, pc, graphs, optimalValues, maxSearchSpaceSize,
                   parametersToOptimize>>

EndSearch ==
    /\ pc = "search" /\ workList = <<>>
    /\ pc' = "sparse"
    /\ optimalValues' = Values(CreateCodeBook(problem.ranges), best.parameters)
    /\ UNCHANGED <<problem, graphs, maxSearchSpaceSize, parametersToOptimize, workList, best>>

SearchNext == \/ DecomposeConnectedComponents \/ BeginSearch \/ SplitUntried \/ Found
              \/ GiveUp \/ Iterate \/ EndSearch
-----------------------------------------------------------------------------
(* Every vector of values, and what it costs. *)
Points == {x \in [DOMAIN problem.ranges -> 0..(Max({0} \cup Range(problem.ranges)))] :
              \A i \in DOMAIN x : x[i] < problem.ranges[i]}

Objective(x) == BoundCallback(problem, x).lower

Lowest == Min({Objective(x) : x \in Points})

(* The header of branch_and_bound.h: the minimum is found unless the work  *)
(* list's limit made the search give up on a joint optimisation, and then  *)
(* too every parameter has a value of its range.                           *)
OptimumFound ==
    pc = "found" => /\ optimalValues \in Points
                    /\ maxSearchSpaceSize = SizeMax => Objective(optimalValues) = Lowest
=============================================================================
