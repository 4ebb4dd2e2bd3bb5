------------------------ MODULE MCRecursiveSummaries ------------------------
(* A main function that calls into two functions that may call themselves  *)
(* and each other.                                                          *)
EXTENDS RecursiveSummaries, TLC

Path(from, to, callee, base, k, add, bound, owner, writes) ==
    [from |-> from, to |-> to, callee |-> callee, base |-> base, k |-> k, add |-> add,
     bound |-> bound, owner |-> owner, writes |-> writes]

Return(c) == Path(0, MaxWord, NoFunction, "c", c, 0, MaxWord, "none", FALSE)
ReturnOwner(o) == Path(0, MaxWord, NoFunction, "c", 0, 0, MaxWord, o, o = "input")
Use(f, bound) == Path(0, MaxWord, f, "c", 0, 0, bound, "none", FALSE)
Forward(f, add, bound) == Path(0, MaxWord, f, "n", 1, add, bound, "none", FALSE)
Guarded(f, to) == Path(0, to, f, "n", 1, 0, MaxWord, "none", FALSE)
ForwardOwner(f) == Path(0, MaxWord, f, "n", 1, 0, MaxWord, "input", FALSE)

Program(main, second, third, requires) ==
    [body |-> (1 :> main) @@ (2 :> second) @@ (3 :> third),
     requires |-> (1 :> 0) @@ (2 :> requires) @@ (3 :> MaxWord)]

\* Words that do not come from a parameter.
Calls2 == {Forward(2, 0, MaxWord), Forward(3, 0, 2), Forward(3, 1, MaxWord), Guarded(3, 2)}
Calls3 == {Return(1), Forward(2, 0, MaxWord), Forward(2, 1, 3), Forward(3, 1, MaxWord),
           Guarded(2, 2)}
Constants ==
    {Program(<<Use(2, b)>>, <<Return(x), p>>, <<Return(1), q>>, MaxWord) :
        b \in {0, 2}, x \in {0, 2}, p \in Calls2, q \in Calls3}
    \cup {Program(<<Use(2, 2)>>, <<Return(0), p>>, <<Return(0), q>>, 3) :
             p \in Calls2, q \in Calls3}

\* Owners that are returned unchanged, replaced, or passed through.
Owners ==
    {Program(<<Use(2, MaxWord)>>, <<ReturnOwner(x), ForwardOwner(g)>>,
             <<ReturnOwner(y), p>>, MaxWord) :
        x \in {"input", "fresh"}, y \in {"input", "fresh"}, g \in {2, 3},
        p \in {ForwardOwner(2), ForwardOwner(3)}}

\* Only calls: there is no return to start from.
Endless == {Program(<<Use(2, MaxWord)>>, <<Forward(3, 0, MaxWord)>>,
                    <<Forward(2, 0, MaxWord)>>, MaxWord)}

\* Components that exceed a budget: of worlds, and of functions.
Odd ==
    {Program(<<Use(2, MaxWord)>>, <<ReturnOwner("input"), ReturnOwner("fresh"),
                                   ForwardOwner(3)>>,
             <<ReturnOwner("input"), ReturnOwner("fresh"), ForwardOwner(2)>>, MaxWord),
     Program(<<Return(0), Use(2, MaxWord)>>, <<Forward(3, 0, MaxWord)>>,
             <<Use(1, MaxWord)>>, MaxWord)}

\* A call that no argument comes to, of a function that does not close.
Unreached ==
    {Program(<<Use(2, MaxWord)>>,
             <<Return(0), Path(4, MaxWord, 3, "n", 0, 0, MaxWord, "none", FALSE)>>,
             <<Forward(3, 0, MaxWord)>>, 3)}

Recursion == Constants \cup Owners \cup Endless \cup Odd \cup Unreached

\* A word that comes from the parameter.
Argument(to) == Path(0, to, NoFunction, "n", 0, 0, MaxWord, "none", FALSE)
Parameters ==
    {Program(<<Use(2, b)>>, <<Argument(MaxWord), p>>, <<Return(0)>>, MaxWord) :
        b \in {1, 2}, p \in {Guarded(2, 3), Forward(2, 0, MaxWord)}}
=============================================================================
