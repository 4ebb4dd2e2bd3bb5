-------------------------- MODULE BorrowCallsProofs --------------------------
(***************************************************************************)
(* The properties of BorrowCalls along every execution, for any depth of   *)
(* calls.  The properties of one frame do not suffice for an induction:    *)
(* what a callee imports is sound because of what its caller's table says  *)
(* of the arguments, and what a return gives back is sound because the     *)
(* caller's table has not changed meanwhile.  So the inductive invariant   *)
(* relates every frame to what it has lent out (Accounts), every frame to  *)
(* the one it called (Passed), and every loan of a callee to a parameter   *)
(* (Rooted).                                                               *)
(***************************************************************************)
EXTENDS BorrowCalls, LoanTableProofs

Seqs == INSTANCE SequenceTheorems

\* Permission p of frame f is an owner's, or names a token that f has minted and
\* bytes of the loan it is an authority over.
Carries(f, p) ==
    IF p.loan = NoLoan
    THEN p.token = NoToken
    ELSE /\ p.token \in f.invocation * MaxTokens .. f.invocation * MaxTokens + f.next - 1
         /\ p.allocation = f.loans[p.loan].allocation
         /\ Contains(f.loans[p.loan].range, p.range)
         /\ ~p.free

\* The table of f is sound, and H are its authorities, each one once.
Accounts(f, H) ==
    /\ TableInv(f.loans)
    /\ H \subseteq Permission
    /\ \A p \in H : Carries(f, p)
    /\ \A l \in LoanIds : f.loans[l].authorities = {p.token : p \in {q \in H : q.loan = l}}
    /\ \A p, q \in H : p.loan # NoLoan /\ p.token = q.token => p = q

\* What frame f knows of the frame g it has called: it has given the arguments
\* away, their loans stay active, and a parameter is a view of its argument.
Passed(f, g) ==
    /\ f.perms \cap GivenBack(g) = {}
    /\ \A p \in GivenBack(g) : p.loan \in LoanIds
    /\ DOMAIN g.args \subseteq DOMAIN ParamLoans
    /\ \A i \in DOMAIN g.args :
          LET m == g.args[i].loan l == ParamLoans[i] IN
          /\ f.loans[m].activity = "Active"
          /\ Live(g.loans, l) =>
                /\ g.loans[l].kind = f.loans[m].kind
                /\ g.loans[l].allocation = g.args[i].allocation
                /\ Contains(g.args[i].range, g.loans[l].range)

\* A function that was called owns nothing, and has derived all its loans from
\* its parameters.
Rooted(g) ==
    /\ \A p \in g.perms : p.loan # NoLoan
    /\ \A l \in LiveLoans(g.loans) : \E i \in DOMAIN g.args : ParamLoans[i] \in Chain(g.loans, l)

StackInv ==
    /\ stack \in Seq(Frame) /\ Len(stack) >= 1 /\ nextInvocation \in Nat
    /\ Len(stack) > 1 => MaxAliases > 0
    /\ \A k \in 1 .. Len(stack) :
          stack[k].invocation < nextInvocation /\ Accounts(stack[k], Holders(k))
    /\ \A k \in 1 .. Len(stack) - 1 : Passed(stack[k], stack[k + 1]) /\ Rooted(stack[k + 1])

\* The parameters that g still has are over the same bytes as in f.
SameParams(f, g) ==
    \A i \in DOMAIN ParamLoans : Live(g.loans, ParamLoans[i]) =>
        /\ Live(f.loans, ParamLoans[i])
        /\ g.loans[ParamLoans[i]].kind = f.loans[ParamLoans[i]].kind
        /\ g.loans[ParamLoans[i]].allocation = f.loans[ParamLoans[i]].allocation
        /\ g.loans[ParamLoans[i]].range = f.loans[ParamLoans[i]].range

\* Frame g is frame f after a step of its own.
Kept(f, g) ==
    /\ g.invocation = f.invocation /\ g.args = f.args /\ g.alias = f.alias
    /\ SameParams(f, g)
    /\ Rooted(f) => Rooted(g)

-----------------------------------------------------------------------------
(* The three ways the stack changes. *)

\* What a called frame is to its caller does not depend on the loans it begins
\* and ends itself.
LEMMA PassedKept ==
    ASSUME NEW f, NEW g, NEW h, Passed(f, g), Kept(g, h)
    PROVE  Passed(f, h)
<1>1. h.args = g.args /\ GivenBack(h) = GivenBack(g) BY DEF Kept, GivenBack
<1>2. ASSUME NEW i \in DOMAIN h.args, Live(h.loans, ParamLoans[i])
      PROVE  /\ h.loans[ParamLoans[i]].kind = f.loans[h.args[i].loan].kind
             /\ h.loans[ParamLoans[i]].allocation = h.args[i].allocation
             /\ Contains(h.args[i].range, h.loans[ParamLoans[i]].range)
  <2>1. i \in DOMAIN ParamLoans BY <1>1 DEF Passed
  <2>2. /\ Live(g.loans, ParamLoans[i])
        /\ h.loans[ParamLoans[i]].kind = g.loans[ParamLoans[i]].kind
        /\ h.loans[ParamLoans[i]].allocation = g.loans[ParamLoans[i]].allocation
        /\ h.loans[ParamLoans[i]].range = g.loans[ParamLoans[i]].range
    BY <1>2, <2>1 DEF Kept, SameParams
  <2> QED BY <1>1, <2>2 DEF Passed
<1> QED BY <1>1, <1>2 DEF Passed

\* The stack is cut back to n frames, and the last of them takes a step.
LEMMA CutInv ==
    ASSUME StackInv, NEW n \in 1 .. Len(stack), NEW g \in Frame,
           stack' \in Seq(Frame), Len(stack') = n, stack'[n] = g,
           \A k \in 1 .. n - 1 : stack'[k] = stack[k],
           nextInvocation' = nextInvocation,
           Kept(stack[n], g), Accounts(g, g.perms)
    PROVE  StackInv'
<1>1. n \in Nat /\ n >= 1 /\ n <= Len(stack) /\ Len(stack) \in Nat BY DEF StackInv
<1>3. ASSUME NEW k \in 1 .. n - 1
      PROVE  GivenBack(stack'[k + 1]) = GivenBack(stack[k + 1])
  <2>1. CASE k + 1 = n BY <2>1 DEF GivenBack, Kept
  <2>2. CASE k + 1 # n
    <3>1. k + 1 \in 1 .. n - 1 BY <2>2, <1>1
    <3> QED BY <3>1
  <2> QED BY <2>1, <2>2
<1>4. ASSUME NEW k \in 1 .. n
      PROVE  stack'[k].invocation < nextInvocation' /\ Accounts(stack'[k], Holders(k)')
  <2>0. k \in 1 .. Len(stack) BY <1>1
  <2>1. CASE k = n
    <3>1. Holders(k)' = g.perms BY <2>1, <1>1 DEF Holders
    <3>2. g.invocation < nextInvocation BY <2>0, <2>1 DEF Kept, StackInv
    <3> QED BY <3>1, <3>2, <2>1
  <2>2. CASE k # n
    <3>1. k \in 1 .. n - 1 BY <2>2, <1>1
    <3>2. k < n /\ k < Len(stack) BY <3>1, <1>1
    <3>3. Holders(k)' = Holders(k) BY <3>1, <3>2, <1>3 DEF Holders
    <3> QED BY <3>1, <3>3, <2>0 DEF StackInv
  <2> QED BY <2>1, <2>2
<1>5. ASSUME NEW k \in 1 .. n - 1
      PROVE  Passed(stack'[k], stack'[k + 1]) /\ Rooted(stack'[k + 1])
  <2>0. k \in 1 .. Len(stack) - 1 BY <1>1
  <2>1. Passed(stack[k], stack[k + 1]) /\ Rooted(stack[k + 1]) BY <2>0 DEF StackInv
  <2>2. CASE k + 1 = n
    <3>1. Kept(stack[k + 1], g) BY <2>2
    <3>2. Rooted(g) BY <3>1, <2>1 DEF Kept
    <3>3. Passed(stack[k], g) BY <3>1, <2>1, PassedKept
    <3> QED BY <3>2, <3>3, <2>2
  <2>3. CASE k + 1 # n
    <3>1. k + 1 \in 1 .. n - 1 BY <2>3, <1>1
    <3> QED BY <3>1, <2>1
  <2> QED BY <2>2, <2>3
<1>6. nextInvocation' \in Nat /\ Len(stack') >= 1 /\ (Len(stack') > 1 => MaxAliases > 0)
  BY <1>1 DEF StackInv
<1> QED BY <1>4, <1>5, <1>6 DEF StackInv

\* The running frame takes a step of its own.
LEMMA ContinueInv ==
    ASSUME StackInv, NEW g \in Frame, Continue(g), Kept(Top, g), Accounts(g, g.perms)
    PROVE  StackInv'
<1> PICK n \in Nat : n = Len(stack) BY DEF StackInv
<1>1. stack \in Seq(Frame) /\ n >= 1 /\ n \in 1 .. n BY DEF StackInv
<1>2. stack' = [stack EXCEPT ![n] = g] /\ nextInvocation' = nextInvocation BY DEF Continue
<1>3. /\ stack' \in Seq(Frame) /\ Len(stack') = n /\ stack'[n] = g
      /\ \A k \in 1 .. n - 1 : stack'[k] = stack[k]
  BY <1>1, <1>2
<1>4. Kept(stack[n], g) BY DEF Top
<1> QED BY <1>1, <1>2, <1>3, <1>4, CutInv

\* Sequence t is s with one more element.
Extends(t, s, g) == t = Append(s, g)

\* The length and the elements of such a sequence.
LEMMA ExtendsAt ==
    ASSUME NEW S, NEW s \in Seq(S), NEW g \in S, NEW t, Extends(t, s, g)
    PROVE  /\ t \in Seq(S) /\ Len(t) = Len(s) + 1 /\ t[Len(s) + 1] = g
           /\ \A k \in 1 .. Len(s) : t[k] = s[k]
BY DEF Extends

\* The caller of the running frame takes a step, and the running frame is gone.
LEMMA ReturnInv ==
    ASSUME StackInv, Len(stack) > 1, NEW g \in Frame, ReturnTo(g), Kept(Caller, g),
           Accounts(g, g.perms)
    PROVE  StackInv'
<1>0. Len(stack) - 1 \in Nat BY DEF StackInv
<1> PICK n \in Nat : n = Len(stack) - 1 BY <1>0
<1>1. stack \in Seq(Frame) /\ n >= 1 /\ Len(stack) = n + 1 /\ n \in 1 .. Len(stack)
  BY DEF StackInv
<1>2. PICK s : s = SubSeq(stack, 1, n - 1) OBVIOUS
<1>3. s \in Seq(Frame) /\ Len(s) = n - 1 /\ \A k \in 1 .. n - 1 : s[k] = stack[k]
  BY <1>1, <1>2
<1>4. Extends(stack', s, g) /\ nextInvocation' = nextInvocation
  <2>1. Len(stack) - 2 = n - 1 BY <1>1
  <2> QED BY <2>1, <1>2 DEF ReturnTo, Extends
<1>5. /\ stack' \in Seq(Frame) /\ Len(stack') = n /\ stack'[n] = g
      /\ \A k \in 1 .. n - 1 : stack'[k] = stack[k]
  <2>1. /\ stack' \in Seq(Frame) /\ Len(stack') = Len(s) + 1 /\ stack'[Len(s) + 1] = g
        /\ \A k \in 1 .. Len(s) : stack'[k] = s[k]
    BY <1>3, <1>4, ExtendsAt
  <2>2. Len(s) + 1 = n BY <1>1, <1>3
  <2> QED BY <2>1, <2>2, <1>3
<1>6. Kept(stack[n], g) BY DEF Caller
<1> QED BY <1>1, <1>4, <1>5, <1>6, CutInv

\* Sequence s with its last element replaced by two.
Pushed(s, f, g) == SubSeq(s, 1, Len(s) - 1) \o <<f, g>>

\* The length and the elements of such a sequence.
LEMMA ReplaceLast ==
    ASSUME NEW S, NEW s \in Seq(S), Len(s) >= 1, NEW f \in S, NEW g \in S
    PROVE  /\ Pushed(s, f, g) \in Seq(S) /\ Len(Pushed(s, f, g)) = Len(s) + 1
           /\ Pushed(s, f, g)[Len(s)] = f /\ Pushed(s, f, g)[Len(s) + 1] = g
           /\ \A k \in 1 .. Len(s) - 1 : Pushed(s, f, g)[k] = s[k]
<1> DEFINE n == Len(s)
           u == SubSeq(s, 1, n - 1)
           e == <<f, g>>
<1>1. n \in Nat /\ n >= 1 OBVIOUS
<1>2. u \in Seq(S) /\ Len(u) = n - 1 /\ \A k \in 1 .. n - 1 : u[k] = s[k] BY <1>1
<1>3. e \in Seq(S) /\ Len(e) = 2 /\ e[1] = f /\ e[2] = g OBVIOUS
<1> HIDE DEF n, u, e
<1>4. /\ u \o e \in Seq(S) /\ Len(u \o e) = n - 1 + 2
      /\ \A k \in 1 .. n - 1 + 2 : (u \o e)[k] = IF k <= n - 1 THEN u[k] ELSE e[k - (n - 1)]
  <2>1. /\ u \o e \in Seq(S) /\ Len(u \o e) = Len(u) + Len(e)
        /\ \A k \in 1 .. Len(u) + Len(e) :
              (u \o e)[k] = IF k <= Len(u) THEN u[k] ELSE e[k - Len(u)]
    BY <1>2, <1>3, Seqs!ConcatProperties, Zenon
  <2> QED BY <2>1, <1>2, <1>3, Zenon
<1>5. n \in 1 .. n - 1 + 2 /\ n + 1 \in 1 .. n - 1 + 2 /\ ~(n <= n - 1) /\ ~(n + 1 <= n - 1)
         /\ n - (n - 1) = 1 /\ n + 1 - (n - 1) = 2 /\ n - 1 + 2 = n + 1
  BY <1>1
<1>6. (u \o e)[n] = f /\ (u \o e)[n + 1] = g
  <2>1. (u \o e)[n] = IF n <= n - 1 THEN u[n] ELSE e[n - (n - 1)] BY <1>4, <1>5, Zenon
  <2>2. (u \o e)[n + 1] = g
    <3>1. PICK k : k = n + 1 OBVIOUS
    <3>2. k \in 1 .. n - 1 + 2 /\ ~(k <= n - 1) /\ k - (n - 1) = 2 BY <3>1, <1>5, <1>1
    <3>3. (u \o e)[k] = e[2] BY <3>2, <1>4, Zenon
    <3>4. (u \o e)[k] = g BY <3>3, <1>3, Zenon
    <3> QED BY <3>1, <3>4
  <2> QED BY <2>1, <2>2, <1>3, <1>5, Zenon
<1>7. \A k \in 1 .. n - 1 : (u \o e)[k] = s[k] BY <1>1, <1>2, <1>4
<1>8. u \o e \in Seq(S) /\ Len(u \o e) = n + 1 BY <1>4, <1>5
<1> QED BY <1>6, <1>7, <1>8 DEF n, u, e, Pushed

\* The stack after a frame was pushed.
LEMMA PushStack ==
    ASSUME stack \in Seq(Frame), Len(stack) >= 1, NEW f \in Frame, NEW g \in Frame,
           stack' = Pushed(stack, f, g)
    PROVE  /\ stack' \in Seq(Frame) /\ Len(stack') = Len(stack) + 1
           /\ stack'[Len(stack)] = f /\ stack'[Len(stack) + 1] = g
           /\ \A k \in 1 .. Len(stack) - 1 : stack'[k] = stack[k]
<1>1. PICK s \in Seq(Frame) : s = stack OBVIOUS
<1>2. Len(s) >= 1 BY <1>1
<1>3. /\ Pushed(s, f, g) \in Seq(Frame) /\ Len(Pushed(s, f, g)) = Len(s) + 1
      /\ Pushed(s, f, g)[Len(s)] = f /\ Pushed(s, f, g)[Len(s) + 1] = g
      /\ \A k \in 1 .. Len(s) - 1 : Pushed(s, f, g)[k] = s[k]
  BY <1>2, ReplaceLast
<1> QED BY <1>1, <1>3

\* The running frame continues as f and calls g.
LEMMA CallInv ==
    ASSUME StackInv, NEW f \in Frame, NEW g \in Frame, NEW n \in Nat, n = Len(stack),
           stack' \in Seq(Frame), Len(stack') = n + 1, stack'[n] = f, stack'[n + 1] = g,
           \A k \in 1 .. n - 1 : stack'[k] = stack[k],
           nextInvocation' = nextInvocation + 1, g.invocation = nextInvocation,
           Kept(stack[n], f), Accounts(f, f.perms \cup GivenBack(g)), Accounts(g, g.perms),
           Passed(f, g), Rooted(g), MaxAliases > 0
    PROVE  StackInv'
<1>1. stack \in Seq(Frame) /\ n >= 1 /\ nextInvocation \in Nat BY DEF StackInv
<1>9. ASSUME NEW k \in 1 .. n - 1
      PROVE  GivenBack(stack'[k + 1]) = GivenBack(stack[k + 1])
  <2>1. CASE k + 1 = n BY <2>1 DEF GivenBack, Kept
  <2>2. CASE k + 1 # n
    <3>1. k + 1 \in 1 .. n - 1 BY <2>2, <1>1
    <3> QED BY <3>1
  <2> QED BY <2>1, <2>2
<1>10. ASSUME NEW k \in 1 .. n + 1
       PROVE  stack'[k].invocation < nextInvocation' /\ Accounts(stack'[k], Holders(k)')
  <2>1. CASE k = n + 1
    <3>1. Holders(k)' = g.perms BY <2>1 DEF Holders
    <3> QED BY <3>1, <2>1, <1>1
  <2>2. CASE k = n
    <3>1. Holders(k)' = f.perms \cup GivenBack(g) BY <2>2 DEF Holders
    <3>2. f \in Frame /\ f.invocation = stack[n].invocation /\ f.invocation \in Nat
      BY DEF Kept, Frame
    <3>3. f.invocation < nextInvocation BY <3>2, <2>2, <1>1 DEF StackInv
    <3> QED BY <3>1, <3>2, <3>3, <2>2, <1>1
  <2>3. CASE k # n /\ k # n + 1
    <3>1. k \in 1 .. n - 1 /\ k \in 1 .. Len(stack) BY <2>3, <1>1
    <3>2. k < n + 1 /\ k < n BY <3>1
    <3>3. Holders(k)' = Holders(k) BY <3>1, <3>2, <1>9 DEF Holders
    <3>4. stack[k].invocation < nextInvocation /\ Accounts(stack[k], Holders(k))
      BY <3>1 DEF StackInv
    <3>5. stack[k] \in Frame BY <3>1, <1>1
    <3>6. stack[k].invocation \in Nat BY <3>5 DEF Frame
    <3> QED BY <3>1, <3>3, <3>4, <3>6, <1>1
  <2> QED BY <2>1, <2>2, <2>3
<1>11. ASSUME NEW k \in 1 .. n
       PROVE  Passed(stack'[k], stack'[k + 1]) /\ Rooted(stack'[k + 1])
  <2>1. CASE k = n BY <2>1
  <2>2. CASE k # n
    <3>1. k \in 1 .. n - 1 BY <2>2
    <3>2. Passed(stack[k], stack[k + 1]) /\ Rooted(stack[k + 1]) BY <3>1 DEF StackInv
    <3>3. CASE k + 1 = n
      <4>1. Kept(stack[k + 1], f) BY <3>3
      <4>2. Rooted(f) BY <4>1, <3>2 DEF Kept
      <4>3. Passed(stack[k], f) BY <4>1, <3>2, PassedKept
      <4> QED BY <4>2, <4>3, <3>1, <3>3
    <3>4. CASE k + 1 # n
      <4>1. k + 1 \in 1 .. n - 1 BY <3>1, <3>4
      <4> QED BY <4>1, <3>1, <3>2
    <3> QED BY <3>3, <3>4
  <2> QED BY <2>1, <2>2
<1>12. nextInvocation' \in Nat /\ Len(stack') >= 1 BY <1>1
<1>13. n + 1 - 1 = n OBVIOUS
<1> QED BY <1>10, <1>11, <1>12, <1>13 DEF StackInv

-----------------------------------------------------------------------------
(* Steps of one frame. *)

\* g continues f: only its loans, its counter and its permissions may differ, and
\* it becomes the owner of nothing.
Continues(f, g) ==
    /\ g.invocation = f.invocation /\ g.args = f.args /\ g.alias = f.alias
    /\ \A x \in g.perms : x \in f.perms \/ x.loan # NoLoan

\* The fields of a frame.
LEMMA FrameFields ==
    ASSUME NEW f \in Frame
    PROVE  /\ f.invocation \in Nat /\ f.next \in Nat /\ f.loans \in Table
           /\ f.perms \subseteq Permission /\ f.alias \subseteq Permission
           /\ f.args \in Seq(Permission)
           /\ f.invocation * MaxTokens \in Nat
BY CallsAssumption DEF Frame, Table

\* A token that is minted is not among the ones of the frame.
LEMMA FreshIsNew ==
    ASSUME NEW f \in Frame, NEW H, Accounts(f, H)
    PROVE  FreshToken(f) \in Nat /\ \A q \in H : q.token # FreshToken(f)
<1> PICK b \in Nat : b = f.invocation * MaxTokens BY FrameFields
<1>1. f.next \in Nat BY FrameFields
<1>2. FreshToken(f) = b + f.next BY DEF FreshToken
<1>3. ASSUME NEW q \in H PROVE q.token # FreshToken(f)
  <2>1. Carries(f, q) BY DEF Accounts
  <2>2. CASE q.loan = NoLoan BY <2>1, <2>2, <1>1, <1>2 DEF Carries, NoToken
  <2>3. CASE q.loan # NoLoan
    <3>1. q.token \in b .. b + f.next - 1 BY <2>1, <2>3 DEF Carries
    <3> QED BY <3>1, <1>1, <1>2
  <2> QED BY <2>2, <2>3
<1> QED BY <1>1, <1>2, <1>3

\* Whoever carries an authority is one of its holders in the table.
LEMMA CarriedIsHeld ==
    ASSUME NEW f \in Frame, NEW H, Accounts(f, H), NEW q \in H, q.loan # NoLoan
    PROVE  q.loan \in LoanIds /\ q.token \in f.loans[q.loan].authorities /\ Live(f.loans, q.loan)
<1>1. q.loan \in LoanIds BY DEF Accounts, Permission
<1>2. f.loans[q.loan].authorities = {p.token : p \in {x \in H : x.loan = q.loan}}
  BY <1>1 DEF Accounts
<1>3. q.token \in f.loans[q.loan].authorities BY <1>2
<1>4. Held(f.loans) BY DEF Accounts, TableInv
<1> QED BY <1>1, <1>3, <1>4 DEF Held

\* A frame that mints one token for one permission accounts for it as well.
LEMMA MintAccounts ==
    ASSUME NEW f \in Frame, NEW g \in Frame, NEW H, Accounts(f, H),
           g.invocation = f.invocation, g.next = f.next + 1, TableInv(g.loans),
           NEW q \in Permission, q.loan \in LoanIds, q.token = FreshToken(f), ~q.free,
           Grants(f.loans, g.loans, q.loan, q.token),
           q.allocation = g.loans[q.loan].allocation, Contains(g.loans[q.loan].range, q.range)
    PROVE  q \notin H /\ Accounts(g, H \cup {q})
<1> PICK b \in Nat : b = f.invocation * MaxTokens BY FrameFields
<1>1. f.next \in Nat /\ g.invocation * MaxTokens = b /\ g.next = f.next + 1
         /\ q.token = b + f.next
  BY FrameFields DEF FreshToken
<1>2. q \notin H /\ \A p \in H : p.token # q.token BY FreshIsNew
<1>3. ASSUME NEW p \in H PROVE Carries(g, p)
  <2>1. Carries(f, p) BY DEF Accounts
  <2>2. CASE p.loan = NoLoan BY <2>1, <2>2 DEF Carries
  <2>3. CASE p.loan # NoLoan
    <3>1. p.loan \in LoanIds /\ f.loans[p.loan].authorities # {} BY <2>3, CarriedIsHeld
    <3>2. g.loans[p.loan].allocation = f.loans[p.loan].allocation
             /\ g.loans[p.loan].range = f.loans[p.loan].range
      BY <3>1 DEF Grants
    <3>3. p.token \in b .. b + f.next - 1 BY <2>1, <2>3 DEF Carries
    <3>4. p.token \in b .. b + g.next - 1 BY <3>3, <1>1
    <3> QED BY <2>1, <2>3, <3>2, <3>4, <1>1 DEF Carries
  <2> QED BY <2>2, <2>3
<1>4. Carries(g, q)
  <2>1. q.token \in b .. b + g.next - 1 BY <1>1
  <2>2. q.loan # NoLoan BY LoanTableAssumption
  <2> QED BY <2>1, <2>2, <1>1 DEF Carries
<1>5. ASSUME NEW m \in LoanIds
      PROVE  g.loans[m].authorities = {p.token : p \in {x \in H \cup {q} : x.loan = m}}
  <2>1. f.loans[m].authorities = {p.token : p \in {x \in H : x.loan = m}} BY DEF Accounts
  <2>2. CASE m = q.loan
    <3>1. g.loans[m].authorities = f.loans[m].authorities \cup {q.token} BY <2>2 DEF Grants
    <3> QED BY <2>1, <2>2, <3>1
  <2>3. CASE m # q.loan
    <3>1. g.loans[m].authorities = f.loans[m].authorities BY <2>3 DEF Grants
    <3>2. {x \in H \cup {q} : x.loan = m} = {x \in H : x.loan = m} BY <2>3
    <3> QED BY <2>1, <3>1, <3>2
  <2> QED BY <2>2, <2>3
<1>6. ASSUME NEW p \in H \cup {q}, NEW x \in H \cup {q}, p.loan # NoLoan, p.token = x.token
      PROVE  p = x
  BY <1>2, <1>6 DEF Accounts
<1>7. H \cup {q} \subseteq Permission BY DEF Accounts
<1> QED BY <1>2, <1>3, <1>4, <1>5, <1>6, <1>7 DEF Accounts

\* A frame that gives up one permission and the token it carries.
LEMMA DropAccounts ==
    ASSUME NEW f \in Frame, NEW g \in Frame, NEW H, Accounts(f, H),
           g.invocation = f.invocation, g.next = f.next, TableInv(g.loans),
           NEW q \in H, q.loan \in LoanIds, Revokes(f.loans, g.loans, q.loan, q.token)
    PROVE  Accounts(g, H \ {q})
<1>0. q.loan # NoLoan BY LoanTableAssumption
<1>1. \A p \in H : p.token = q.token => p = q BY <1>0 DEF Accounts
<1>2. ASSUME NEW m \in LoanIds
      PROVE  g.loans[m].authorities = {p.token : p \in {x \in H \ {q} : x.loan = m}}
  <2>1. f.loans[m].authorities = {p.token : p \in {x \in H : x.loan = m}} BY DEF Accounts
  <2>2. CASE m = q.loan
    <3>1. g.loans[m].authorities = f.loans[m].authorities \ {q.token} BY <2>2 DEF Revokes
    <3> QED BY <2>1, <2>2, <3>1, <1>1
  <2>3. CASE m # q.loan
    <3>1. g.loans[m].authorities = f.loans[m].authorities BY <2>3 DEF Revokes
    <3>2. {x \in H \ {q} : x.loan = m} = {x \in H : x.loan = m} BY <2>3
    <3> QED BY <2>1, <3>1, <3>2
  <2> QED BY <2>2, <2>3
<1>3. ASSUME NEW p \in H \ {q} PROVE Carries(g, p)
  <2>1. Carries(f, p) BY DEF Accounts
  <2>2. CASE p.loan = NoLoan BY <2>1, <2>2 DEF Carries
  <2>3. CASE p.loan # NoLoan
    <3>1. p.loan \in LoanIds BY <2>3, CarriedIsHeld
    <3>2. g.loans[p.loan].authorities = {y.token : y \in {x \in H \ {q} : x.loan = p.loan}}
      BY <3>1, <1>2
    <3>3. g.loans[p.loan].authorities # {} BY <3>2
    <3>4. g.loans[p.loan].allocation = f.loans[p.loan].allocation
             /\ g.loans[p.loan].range = f.loans[p.loan].range
      BY <3>1, <3>3 DEF Revokes
    <3> QED BY <2>1, <2>3, <3>4 DEF Carries
  <2> QED BY <2>2, <2>3
<1> QED BY <1>2, <1>3 DEF Accounts

\* What a frame accounts for does not depend on the permissions it has at hand.
LEMMA SameAccounts ==
    ASSUME NEW f, NEW g, NEW H, Accounts(f, H),
           g.invocation = f.invocation, g.next = f.next, g.loans = f.loans
    PROVE  Accounts(g, H)
BY DEF Accounts, Carries

\* Granting a token leaves the parameters of a frame as they are, and makes no
\* other loan live than the one it is granted on.
LEMMA GrantKeepsParams ==
    ASSUME NEW f \in Frame, NEW g \in Frame, TableInv(f.loans), TableInv(g.loans),
           NEW l \in LoanIds, NEW t, Grants(f.loans, g.loans, l, t),
           Live(f.loans, l) \/ \A i \in DOMAIN ParamLoans : ParamLoans[i] # l
    PROVE  SameParams(f, g) /\ LiveLoans(g.loans) = LiveLoans(f.loans) \cup {l}
<1>1. Held(f.loans) /\ Held(g.loans) BY DEF TableInv
<1>2. \A m \in LoanIds : Live(g.loans, m) <=> Live(f.loans, m) \/ m = l
  BY <1>1 DEF Grants, Held
<1>3. ASSUME NEW i \in DOMAIN ParamLoans, Live(g.loans, ParamLoans[i])
      PROVE  Live(f.loans, ParamLoans[i])
  <2>1. ParamLoans[i] \in LoanIds BY CallsAssumption
  <2> QED BY <2>1, <1>2, <1>3
<1>4. \A i \in DOMAIN ParamLoans : ParamLoans[i] \in LoanIds BY CallsAssumption
<1>5. SameParams(f, g) BY <1>1, <1>3, <1>4 DEF SameParams, Grants, Held
<1>6. LiveLoans(g.loans) = LiveLoans(f.loans) \cup {l} BY <1>2 DEF LiveLoans
<1> QED BY <1>5, <1>6

\* A frame continues with a loan of its own storage.
LEMMA BeginStep ==
    ASSUME NEW f \in Frame, NEW g \in Frame, Accounts(f, f.perms), Continues(f, g),
           NEW p \in f.perms, p.loan = NoLoan, NEW l \in BodyLoans, NEW r \in Range, NEW k \in Kind,
           BeginAllowed(f.loans, l, p.allocation, r, k),
           g.loans = BeginLoan(f.loans, l, p.allocation, r, k, FreshToken(f)),
           g.next = f.next + 1
    PROVE  /\ Kept(f, g)
           /\ Accounts(g, f.perms \cup {Carrier(p.allocation, r, l, FreshToken(f))})
<1> PICK t \in Nat : t = FreshToken(f) BY FreshIsNew
<1> PICK q : q = Carrier(p.allocation, r, l, t) OBVIOUS
<1>1. f.loans \in Table /\ p \in Permission /\ TableInv(f.loans) /\ Held(f.loans)
  BY FrameFields DEF Accounts, TableInv
<1>2. l \in LoanIds /\ p.allocation \in Allocations /\ \A i \in DOMAIN ParamLoans : ParamLoans[i] # l
  BY <1>1, CallsAssumption DEF Permission
<1>3. TableInv(g.loans) BY <1>1, <1>2, BeginInv
<1>4. /\ Grants(f.loans, g.loans, l, t)
      /\ g.loans[l].allocation = p.allocation /\ g.loans[l].range = r
  BY <1>1, <1>2, BeginGrants
<1>5. /\ q \in Permission /\ q.loan = l /\ q.token = t /\ ~q.free
      /\ q.allocation = p.allocation /\ q.range = r
  BY <1>2 DEF Carrier, Permission
<1>6. Contains(r, r)
  BY LoanTableAssumption DEF Contains, Range, Offsets
<1>7. Accounts(g, f.perms \cup {q})
  BY <1>2, <1>3, <1>4, <1>5, <1>6, MintAccounts DEF Continues
<1>8. SameParams(f, g) BY <1>1, <1>2, <1>3, <1>4, GrantKeepsParams
<1>9. ~Rooted(f) BY DEF Rooted
<1> QED BY <1>7, <1>8, <1>9 DEF Kept, Continues

\* A frame continues with a reborrow of one of its loans.
LEMMA ReborrowStep ==
    ASSUME NEW f \in Frame, NEW g \in Frame, NEW H, Accounts(f, H), Continues(f, g),
           NEW l \in LoanIds, \A i \in DOMAIN ParamLoans : ParamLoans[i] # l,
           NEW p \in LoanIds, NEW r \in Range,
           NEW k \in Kind, NEW h, ReborrowAllowed(f.loans, l, p, r, k, h),
           g.loans = ReborrowLoan(f.loans, l, p, r, k, FreshToken(f)), g.next = f.next + 1,
           NEW q, q = Carrier(f.loans[p].allocation, r, l, FreshToken(f))
    PROVE  Kept(f, g) /\ Accounts(g, H \cup {q})
<1> PICK t \in Nat : t = FreshToken(f) BY FreshIsNew
<1>1. f.loans \in Table /\ TableInv(f.loans) /\ Held(f.loans)
  BY FrameFields DEF Accounts, TableInv
<1>2. l \in LoanIds /\ \A i \in DOMAIN ParamLoans : ParamLoans[i] # l OBVIOUS
<1>3. f.loans[p].allocation \in Allocations BY <1>1 DEF Table, Loan
<1>4. TableInv(g.loans) BY <1>1, <1>2, ReborrowInv
<1>5. /\ Grants(f.loans, g.loans, l, t)
      /\ g.loans[l].allocation = f.loans[p].allocation /\ g.loans[l].range = r
  BY <1>1, <1>2, ReborrowGrants
<1>6. /\ q \in Permission /\ q.loan = l /\ q.token = t /\ ~q.free
      /\ q.allocation = f.loans[p].allocation /\ q.range = r
  BY <1>2, <1>3 DEF Carrier, Permission
<1>7. Contains(r, r) BY LoanTableAssumption DEF Contains, Range, Offsets
<1>8. Accounts(g, H \cup {q})
  BY <1>2, <1>4, <1>5, <1>6, <1>7, MintAccounts DEF Continues
<1>9. SameParams(f, g) /\ LiveLoans(g.loans) = LiveLoans(f.loans) \cup {l}
  BY <1>1, <1>2, <1>4, <1>5, GrantKeepsParams
<1>10. ASSUME Rooted(f) PROVE Rooted(g)
  <2>1. /\ \A m \in LiveLoans(f.loans) : Chain(g.loans, m) = Chain(f.loans, m)
        /\ Chain(f.loans, p) \subseteq Chain(g.loans, l)
    BY <1>1, <1>2, ReborrowChains
  <2>2. p \in LiveLoans(f.loans) BY DEF ReborrowAllowed, LiveLoans
  <2>3. \A x \in g.perms : x.loan # NoLoan BY <1>10 DEF Rooted, Continues
  <2>4. ASSUME NEW m \in LiveLoans(g.loans)
        PROVE  \E i \in DOMAIN g.args : ParamLoans[i] \in Chain(g.loans, m)
    <3>1. CASE m = l
      <4>1. PICK i \in DOMAIN f.args : ParamLoans[i] \in Chain(f.loans, p)
        BY <1>10, <2>2 DEF Rooted
      <4> QED BY <4>1, <3>1, <2>1 DEF Continues
    <3>2. CASE m # l
      <4>1. m \in LiveLoans(f.loans) BY <3>2, <1>9
      <4>2. PICK i \in DOMAIN f.args : ParamLoans[i] \in Chain(f.loans, m)
        BY <1>10, <4>1 DEF Rooted
      <4> QED BY <4>1, <4>2, <2>1 DEF Continues
    <3> QED BY <3>1, <3>2
  <2> QED BY <2>3, <2>4 DEF Rooted
<1> QED BY <1>8, <1>9, <1>10 DEF Kept, Continues

\* A frame continues with one more holder of a shared loan.
LEMMA AliasStep ==
    ASSUME NEW f \in Frame, NEW g \in Frame, NEW H, Accounts(f, H), Continues(f, g),
           NEW l \in LoanIds, NEW h, AliasAllowed(f.loans, l, h),
           g.loans = AliasLoan(f.loans, l, FreshToken(f)), g.next = f.next + 1,
           NEW q \in Permission, q.loan = l, q.token = FreshToken(f), ~q.free,
           q.allocation = f.loans[l].allocation, Contains(f.loans[l].range, q.range)
    PROVE  Kept(f, g) /\ q \notin H /\ Accounts(g, H \cup {q})
<1> PICK t \in Nat : t = FreshToken(f) BY FreshIsNew
<1>1. f.loans \in Table /\ TableInv(f.loans) /\ Held(f.loans)
  BY FrameFields DEF Accounts, TableInv
<1>2. Live(f.loans, l) /\ f.loans[l].authorities # {} BY DEF AliasAllowed, Live
<1>3. TableInv(g.loans) BY <1>1, AliasInv
<1>4. Grants(f.loans, g.loans, l, t) BY <1>1, AliasGrants
<1>5. g.loans[l].allocation = f.loans[l].allocation /\ g.loans[l].range = f.loans[l].range
  BY <1>2, <1>4 DEF Grants
<1>6. q \notin H /\ Accounts(g, H \cup {q})
  BY <1>3, <1>4, <1>5, MintAccounts DEF Continues
<1>7. SameParams(f, g) /\ LiveLoans(g.loans) = LiveLoans(f.loans)
  <2>1. SameParams(f, g) /\ LiveLoans(g.loans) = LiveLoans(f.loans) \cup {l}
    BY <1>1, <1>2, <1>3, <1>4, GrantKeepsParams
  <2> QED BY <2>1, <1>2 DEF LiveLoans
<1>8. ASSUME Rooted(f) PROVE Rooted(g)
  <2>1. \A m \in LoanIds : Chain(g.loans, m) = Chain(f.loans, m) BY <1>1, AliasChains
  <2>2. \A x \in g.perms : x.loan # NoLoan BY <1>8 DEF Rooted, Continues
  <2>3. \A m \in LiveLoans(g.loans) : m \in LoanIds BY DEF LiveLoans
  <2> QED BY <1>7, <1>8, <2>1, <2>2, <2>3 DEF Rooted, Continues
<1> QED BY <1>6, <1>7, <1>8 DEF Kept, Continues

\* A frame continues with one holder of a loan less.
LEMMA EndStep ==
    ASSUME NEW f \in Frame, NEW g \in Frame, Accounts(f, f.perms), Continues(f, g),
           NEW p \in f.perms, p.loan # NoLoan,
           EndAllowed(f.loans, p.loan, p.token) \/ EndStoredAllowed(f.loans, p.loan, p.token),
           g.loans = EndLoan(f.loans, p.loan, p.token), g.next = f.next
    PROVE  Kept(f, g) /\ Accounts(g, f.perms \ {p})
<1>1. f.loans \in Table /\ TableInv(f.loans) /\ Held(f.loans)
  BY FrameFields DEF Accounts, TableInv
<1>2. p.loan \in LoanIds /\ p.token \in f.loans[p.loan].authorities BY CarriedIsHeld
<1>3. TableInv(g.loans) BY <1>1, <1>2, EndInv
<1>4. Revokes(f.loans, g.loans, p.loan, p.token) BY <1>1, <1>2, EndRevokes
<1>5. Accounts(g, f.perms \ {p}) BY <1>2, <1>3, <1>4, DropAccounts DEF Continues
<1>6. Held(g.loans) BY <1>3 DEF TableInv
<1>7. \A i \in DOMAIN ParamLoans : ParamLoans[i] \in LoanIds BY CallsAssumption
<1>8. \A m \in LoanIds : Live(g.loans, m) =>
         /\ Live(f.loans, m) /\ g.loans[m].kind = f.loans[m].kind
         /\ g.loans[m].allocation = f.loans[m].allocation /\ g.loans[m].range = f.loans[m].range
  BY <1>1, <1>4, <1>6 DEF Revokes, Held
<1>9. SameParams(f, g) BY <1>7, <1>8 DEF SameParams
<1>10. ASSUME Rooted(f) PROVE Rooted(g)
  <2>1. \A m \in LiveLoans(g.loans) : m \in LiveLoans(f.loans) /\ Chain(g.loans, m) = Chain(f.loans, m)
    BY <1>1, <1>2, EndChains
  <2>2. \A x \in g.perms : x.loan # NoLoan BY <1>10 DEF Rooted, Continues
  <2> QED BY <1>10, <2>1, <2>2 DEF Rooted, Continues
<1> QED BY <1>5, <1>9, <1>10 DEF Kept, Continues

-----------------------------------------------------------------------------
(* The frames at the top of the stack, and their successors. *)

\* The running frame has everything it accounts for at hand.
LEMMA TopFrame ==
    ASSUME StackInv
    PROVE  Top \in Frame /\ Accounts(Top, Top.perms)
<1>1. Len(stack) \in Nat /\ Len(stack) \in 1 .. Len(stack) BY DEF StackInv
<1>2. Top \in Frame BY <1>1 DEF Top, StackInv
<1>3. Holders(Len(stack)) = Top.perms BY <1>1 DEF Holders, Top
<1> QED BY <1>1, <1>2, <1>3 DEF StackInv, Top

\* Its caller accounts for what the running frame will give back as well.
LEMMA CallerFrame ==
    ASSUME StackInv, Len(stack) > 1
    PROVE  /\ Caller \in Frame /\ Accounts(Caller, Caller.perms \cup GivenBack(Top))
           /\ Passed(Caller, Top) /\ Rooted(Top)
<1> PICK n \in Nat : n = Len(stack) BY DEF StackInv
<1>1. n - 1 \in 1 .. n /\ n - 1 \in 1 .. n - 1 /\ n - 1 < n /\ n - 1 + 1 = n OBVIOUS
<1>2. Caller = stack[n - 1] /\ Top = stack[n] BY DEF Caller, Top
<1>3. Caller \in Frame BY <1>1, <1>2 DEF StackInv
<1>4. Holders(n - 1) = Caller.perms \cup GivenBack(Top) BY <1>1, <1>2 DEF Holders
<1>5. Accounts(Caller, Holders(n - 1)) BY <1>1, <1>2 DEF StackInv
<1>6. Passed(stack[n - 1], stack[n - 1 + 1]) /\ Rooted(stack[n - 1 + 1]) BY <1>1 DEF StackInv
<1> QED BY <1>1, <1>2, <1>3, <1>4, <1>5, <1>6

\* What a frame gives back are permissions.
LEMMA GivenBackType ==
    ASSUME NEW f \in Frame
    PROVE  GivenBack(f) \subseteq Permission /\ \A i \in DOMAIN f.args : f.args[i] \in GivenBack(f)
<1>1. f.args \in Seq(Permission) /\ f.alias \subseteq Permission BY FrameFields
<1>2. \A i \in DOMAIN f.args : f.args[i] \in Permission BY <1>1
<1> QED BY <1>1, <1>2 DEF GivenBack

\* The frame after a token was minted.
LEMMA MintedFrame ==
    ASSUME NEW f \in Frame, NEW M \in Table, NEW p \in Permission
    PROVE  LET g == Minted(f, M, p) IN
           /\ g \in Frame /\ g.loans = M /\ g.next = f.next + 1 /\ g.perms = f.perms \cup {p}
           /\ g.invocation = f.invocation /\ g.args = f.args /\ g.alias = f.alias
<1>1. f.perms \cup {p} \in SUBSET Permission /\ f.next + 1 \in Nat /\ M \in [LoanIds -> Loan]
  BY DEF Frame, Table
<1>2. Minted(f, M, p) = [f EXCEPT !.loans = M, !.next = f.next + 1, !.perms = f.perms \cup {p}]
  BY DEF Minted, Frame
<1> QED BY <1>1, <1>2 DEF Frame

\* The frame after the running one has given back what it borrowed.
LEMMA RefilledFrame ==
    ASSUME NEW f \in Frame, NEW G \in SUBSET Permission
    PROVE  LET g == [f EXCEPT !.perms = @ \cup G] IN
           /\ g \in Frame /\ g.loans = f.loans /\ g.next = f.next /\ g.perms = f.perms \cup G
           /\ g.invocation = f.invocation /\ g.args = f.args /\ g.alias = f.alias
<1> DEFINE g == [f EXCEPT !.perms = @ \cup G]
<1>1. f.perms \cup G \in SUBSET Permission BY DEF Frame
<1>2. g = [f EXCEPT !.perms = f.perms \cup G] BY DEF Frame
<1> QED BY <1>1, <1>2 DEF Frame

-----------------------------------------------------------------------------
(* The actions. *)

\* LoanBegin keeps the invariant.
LEMMA LoanBeginInv ==
    ASSUME StackInv, NEW l \in BodyLoans, NEW p \in Top.perms, NEW r \in Range, NEW k \in Kind,
           LoanBegin(l, p, r, k)
    PROVE  StackInv'
<1> PICK f : f = Top OBVIOUS
<1>1. f \in Frame /\ Accounts(f, f.perms) BY TopFrame
<1> PICK M : M = BeginLoan(f.loans, l, p.allocation, r, k, FreshToken(f)) OBVIOUS
<1> PICK q : q = Carrier(p.allocation, r, l, FreshToken(f)) OBVIOUS
<1> PICK g : g = Minted(f, M, q) OBVIOUS
<1>2. /\ p.loan = NoLoan /\ BeginAllowed(f.loans, l, p.allocation, r, k) /\ Continue(g)
  BY DEF LoanBegin
<1>3. f.loans \in Table /\ TableInv(f.loans) /\ FreshToken(f) \in Nat /\ p \in Permission
  BY <1>1, FrameFields, FreshIsNew DEF Accounts
<1>4. l \in LoanIds /\ p.allocation \in Allocations BY <1>3, CallsAssumption DEF Permission
<1>5. M \in Table BY <1>2, <1>3, <1>4, BeginInv
<1>6. q \in Permission /\ q.loan # NoLoan
  BY <1>3, <1>4, LoanTableAssumption DEF Carrier, Permission
<1>7. /\ g \in Frame /\ g.loans = M /\ g.next = f.next + 1 /\ g.perms = f.perms \cup {q}
      /\ g.invocation = f.invocation /\ g.args = f.args /\ g.alias = f.alias
  BY <1>1, <1>5, <1>6, MintedFrame
<1>8. Continues(f, g) BY <1>6, <1>7 DEF Continues
<1>9. Kept(f, g) /\ Accounts(g, g.perms) BY <1>1, <1>2, <1>7, <1>8, BeginStep
<1> QED BY <1>2, <1>7, <1>9, ContinueInv

\* LoanReborrow keeps the invariant.
LEMMA LoanReborrowInv ==
    ASSUME StackInv, NEW l \in BodyLoans, NEW p \in Top.perms, NEW r \in Range, NEW k \in Kind,
           LoanReborrow(l, p, r, k)
    PROVE  StackInv'
<1> PICK f : f = Top OBVIOUS
<1>1. f \in Frame /\ Accounts(f, f.perms) BY TopFrame
<1> PICK M : M = ReborrowLoan(f.loans, l, p.loan, r, k, FreshToken(f)) OBVIOUS
<1> PICK q : q = Carrier(p.allocation, r, l, FreshToken(f)) OBVIOUS
<1> PICK g : g = Minted(f, M, q) OBVIOUS
<1>2. p.loan # NoLoan /\ ReborrowAllowed(f.loans, l, p.loan, r, k, p.token) /\ Continue(g)
  BY DEF LoanReborrow
<1>3. f.loans \in Table /\ TableInv(f.loans) /\ FreshToken(f) \in Nat /\ p \in Permission
  BY <1>1, FrameFields, FreshIsNew DEF Accounts
<1>4. /\ l \in LoanIds /\ p.loan \in LoanIds /\ p.allocation \in Allocations
      /\ p.allocation = f.loans[p.loan].allocation
  BY <1>1, <1>2, <1>3, CallsAssumption DEF Permission, Accounts, Carries
<1>5. M \in Table BY <1>2, <1>3, <1>4, ReborrowInv
<1>6. q \in Permission /\ q.loan # NoLoan
  BY <1>3, <1>4, LoanTableAssumption DEF Carrier, Permission
<1>7. /\ g \in Frame /\ g.loans = M /\ g.next = f.next + 1 /\ g.perms = f.perms \cup {q}
      /\ g.invocation = f.invocation /\ g.args = f.args /\ g.alias = f.alias
  BY <1>1, <1>5, <1>6, MintedFrame
<1>8. Continues(f, g) BY <1>6, <1>7 DEF Continues
<1>9. Kept(f, g) /\ Accounts(g, g.perms)
  <2>1. l \in LoanIds /\ \A i \in DOMAIN ParamLoans : ParamLoans[i] # l BY CallsAssumption
  <2>2. q = Carrier(f.loans[p.loan].allocation, r, l, FreshToken(f)) BY <1>4
  <2>3. Kept(f, g) /\ Accounts(g, f.perms \cup {q})
    <3>1. PICK m \in LoanIds : m = p.loan BY <1>4
    <3>2. /\ ReborrowAllowed(f.loans, l, m, r, k, p.token)
          /\ g.loans = ReborrowLoan(f.loans, l, m, r, k, FreshToken(f))
          /\ q = Carrier(f.loans[m].allocation, r, l, FreshToken(f))
      BY <3>1, <1>2, <1>7, <2>2
    <3>3. /\ f \in Frame /\ g \in Frame /\ Accounts(f, f.perms) /\ Continues(f, g)
          /\ g.next = f.next + 1
      BY <1>1, <1>7, <1>8
    <3> QED BY <3>2, <3>3, <2>1, ReborrowStep
  <2> QED BY <2>3, <1>7
<1> QED BY <1>2, <1>7, <1>9, ContinueInv

\* LoanAlias keeps the invariant.
LEMMA LoanAliasInv ==
    ASSUME StackInv, NEW p \in Top.perms, LoanAlias(p)
    PROVE  StackInv'
<1> PICK f : f = Top OBVIOUS
<1>1. f \in Frame /\ Accounts(f, f.perms) BY TopFrame
<1>M. PICK M : M = AliasLoan(f.loans, p.loan, FreshToken(f)) OBVIOUS
<1>q. PICK q : q = [p EXCEPT !.token = FreshToken(f)] OBVIOUS
<1>g. PICK g : g = Minted(f, M, q) OBVIOUS
<1>2. p.loan # NoLoan /\ AliasAllowed(f.loans, p.loan, p.token) /\ Continue(g)
  BY <1>M, <1>q, <1>g DEF LoanAlias
<1>3. f.loans \in Table /\ TableInv(f.loans) /\ FreshToken(f) \in Nat /\ p \in Permission
  BY <1>1, FrameFields, FreshIsNew DEF Accounts
<1>4. /\ p.loan \in LoanIds /\ p.allocation = f.loans[p.loan].allocation /\ ~p.free
      /\ Contains(f.loans[p.loan].range, p.range)
  BY <1>1, <1>2, <1>3 DEF Permission, Accounts, Carries
<1>5. M \in Table BY <1>M, <1>2, <1>3, <1>4, AliasInv
<1>6. /\ q \in Permission /\ q.loan = p.loan /\ q.token = FreshToken(f) /\ q.free = p.free
      /\ q.allocation = p.allocation /\ q.range = p.range
  BY <1>q, <1>3 DEF Permission
<1>7. /\ g \in Frame /\ g.loans = M /\ g.next = f.next + 1 /\ g.perms = f.perms \cup {q}
      /\ g.invocation = f.invocation /\ g.args = f.args /\ g.alias = f.alias
  BY <1>g, <1>1, <1>5, <1>6, MintedFrame
<1>8. Continues(f, g) BY <1>2, <1>6, <1>7 DEF Continues
<1>9. Kept(f, g) /\ Accounts(g, g.perms)
  <2>1. ~q.free BY <1>4, <1>6, Zenon
  <2>2. q.allocation = f.loans[p.loan].allocation /\ Contains(f.loans[p.loan].range, q.range)
    BY <1>4, <1>6
  <2>4. g.loans = AliasLoan(f.loans, p.loan, FreshToken(f)) BY <1>M, <1>7
  <2>3. Kept(f, g) /\ Accounts(g, f.perms \cup {q})
    BY <1>1, <1>2, <1>4, <1>6, <1>7, <1>8, <2>1, <2>2, <2>4, AliasStep
  <2> QED BY <2>3, <1>7
<1> QED BY <1>2, <1>7, <1>9, ContinueInv

\* LoanEnd keeps the invariant.
LEMMA LoanEndInv ==
    ASSUME StackInv, NEW p \in Top.perms, LoanEnd(p)
    PROVE  StackInv'
<1> PICK f : f = Top OBVIOUS
<1>1. f \in Frame /\ Accounts(f, f.perms) BY TopFrame
<1> PICK M : M = EndLoan(f.loans, p.loan, p.token) OBVIOUS
<1> PICK g : g = [f EXCEPT !.loans = EndLoan(@, p.loan, p.token), !.perms = @ \ {p}] OBVIOUS
<1>2. /\ p.loan # NoLoan /\ Continue(g)
      /\ EndAllowed(f.loans, p.loan, p.token) \/ EndStoredAllowed(f.loans, p.loan, p.token)
  BY DEF LoanEnd
<1>3. f.loans \in Table /\ TableInv(f.loans) /\ p.loan \in LoanIds
  BY <1>1, <1>2, FrameFields, CarriedIsHeld DEF Accounts
<1>5. M \in Table BY <1>2, <1>3, EndInv
<1>7. /\ g \in Frame /\ g.loans = M /\ g.next = f.next /\ g.perms = f.perms \ {p}
      /\ g.invocation = f.invocation /\ g.args = f.args /\ g.alias = f.alias
  BY <1>1, <1>5 DEF Frame, Table
<1>8. Continues(f, g) BY <1>7 DEF Continues
<1>9. Kept(f, g) /\ Accounts(g, g.perms)
  <2>1. g.loans = EndLoan(f.loans, p.loan, p.token) BY <1>7
  <2>2. p \in f.perms OBVIOUS
  <2>3. Kept(f, g) /\ Accounts(g, f.perms \ {p})
    BY <1>1, <1>2, <1>7, <1>8, <2>1, <2>2, EndStep
  <2> QED BY <2>3, <1>7
<1> QED BY <1>2, <1>7, <1>9, ContinueInv

\* A frame that continues with the same loans.
LEMMA SameStep ==
    ASSUME NEW f, NEW g, Continues(f, g), g.loans = f.loans
    PROVE  Kept(f, g)
<1>1. SameParams(f, g) BY DEF SameParams
<1>2. Rooted(f) => Rooted(g) BY DEF Rooted, Continues
<1> QED BY <1>1, <1>2 DEF Kept, Continues

\* Return keeps the invariant.
LEMMA ReturnKeeps ==
    ASSUME StackInv, NEW slots, NEW V, Return(slots, V)
    PROVE  StackInv'
<1>0. Len(stack) > 1 BY DEF Return, Leaves
<1> PICK f : f = Caller OBVIOUS
<1> PICK G : G = GivenBack(Top) OBVIOUS
<1> PICK g : g = [f EXCEPT !.perms = @ \cup G] OBVIOUS
<1>1. f \in Frame /\ Accounts(f, f.perms \cup G) /\ \A x \in G : x.loan \in LoanIds
  BY <1>0, CallerFrame DEF Passed
<1>2. G \in SUBSET Permission BY TopFrame, GivenBackType
<1>3. /\ g \in Frame /\ g.loans = f.loans /\ g.next = f.next /\ g.perms = f.perms \cup G
      /\ g.invocation = f.invocation /\ g.args = f.args /\ g.alias = f.alias
  BY <1>1, <1>2, RefilledFrame
<1>4. Continues(f, g) BY <1>1, <1>3, LoanTableAssumption DEF Continues
<1>5. Accounts(g, g.perms) BY <1>1, <1>3, SameAccounts
<1>6. ReturnTo(g) BY DEF Return
<1> QED BY <1>0, <1>3, <1>4, <1>5, <1>6, SameStep, ReturnInv

\* ReturnAlias keeps the invariant.
LEMMA ReturnAliasKeeps ==
    ASSUME StackInv, NEW slots, NEW v \in Top.perms, NEW i \in DOMAIN Top.args,
           ReturnAlias(slots, v, i)
    PROVE  StackInv'
<1>0. Len(stack) > 1 BY DEF ReturnAlias, Leaves
<1>ff. PICK f : f = Caller OBVIOUS
<1>GG. PICK G : G = GivenBack(Top) OBVIOUS
<1>HH. PICK H : H = f.perms \cup G OBVIOUS
<1>pp. PICK p : p = Top.args[i] OBVIOUS
<1>MM. PICK M : M = AliasLoan(f.loans, p.loan, FreshToken(f)) OBVIOUS
<1>qq. PICK q : q = Carrier(v.allocation, v.range, p.loan, FreshToken(f)) OBVIOUS
<1>hh. PICK h : h = Minted(f, M, q) OBVIOUS
<1>gg. PICK g : g = [h EXCEPT !.perms = @ \cup G] OBVIOUS
<1>1. f \in Frame /\ Accounts(f, H) /\ \A x \in G : x.loan \in LoanIds
  BY <1>0, <1>ff, <1>GG, <1>HH, CallerFrame DEF Passed
<1>2. G \in SUBSET Permission /\ p \in G BY <1>GG, <1>pp, TopFrame, GivenBackType
<1>3. /\ f.loans[p.loan].kind = "Shared" /\ ParentReady(f, p, v)
      /\ Cardinality(f.loans[p.loan].authorities) < MaxAliases /\ ReturnTo(g)
  BY <1>hh, <1>gg, <1>ff, <1>GG, <1>pp, <1>MM, <1>qq DEF ReturnAlias
<1>4. p.loan \in LoanIds /\ AliasAllowed(f.loans, p.loan, p.token)
  BY <1>1, <1>2, <1>3 DEF AliasAllowed, ParentReady
<1>5. f.loans \in Table /\ TableInv(f.loans) /\ FreshToken(f) \in Nat
  BY <1>1, FrameFields, FreshIsNew DEF Accounts
<1>6. M \in Table BY <1>MM, <1>4, <1>5, AliasInv
<1>7. v \in Permission BY TopFrame, FrameFields
<1>8. /\ q \in Permission /\ q.loan = p.loan /\ q.token = FreshToken(f) /\ ~q.free
      /\ q.allocation = v.allocation /\ q.range = v.range
  BY <1>qq, <1>4, <1>5, <1>7 DEF Permission, Carrier
<1>9. /\ h \in Frame /\ h.loans = M /\ h.next = f.next + 1 /\ h.perms = f.perms \cup {q}
      /\ h.invocation = f.invocation /\ h.args = f.args /\ h.alias = f.alias
  BY <1>hh, <1>1, <1>6, <1>8, MintedFrame
<1>10. /\ g \in Frame /\ g.loans = M /\ g.next = f.next + 1 /\ g.perms = H \cup {q}
       /\ g.invocation = f.invocation /\ g.args = f.args /\ g.alias = f.alias
  <2>1. /\ g \in Frame /\ g.loans = h.loans /\ g.next = h.next /\ g.perms = h.perms \cup G
        /\ g.invocation = h.invocation /\ g.args = h.args /\ g.alias = h.alias
    BY <1>gg, <1>2, <1>9, RefilledFrame
  <2> QED BY <2>1, <1>9, <1>HH
<1>11. Continues(f, g) BY <1>HH, <1>1, <1>4, <1>8, <1>10, LoanTableAssumption DEF Continues
<1>12. q.allocation = f.loans[p.loan].allocation /\ Contains(f.loans[p.loan].range, q.range)
  BY <1>3, <1>8 DEF ParentReady
<1>13. Kept(f, g) /\ Accounts(g, H \cup {q})
  BY <1>1, <1>4, <1>8, <1>10, <1>11, <1>12, <1>MM, AliasStep
<1>14. Accounts(g, g.perms) BY <1>10, <1>13
<1> QED BY <1>0, <1>3, <1>10, <1>13, <1>14, <1>ff, ReturnInv

\* ReturnReborrow keeps the invariant: it looks for no conflict, and there is none.
LEMMA ReturnReborrowKeeps ==
    ASSUME StackInv, NEW slots, NEW v \in Top.perms, NEW i \in DOMAIN Top.args,
           NEW d \in DynamicLoans, ReturnReborrow(slots, v, i, d)
    PROVE  StackInv'
<1>0. Len(stack) > 1 /\ MaxAliases > 0 BY DEF ReturnReborrow, Leaves, StackInv
<1>ff. PICK f : f = Caller OBVIOUS
<1>GG. PICK G : G = GivenBack(Top) OBVIOUS
<1>HH. PICK H : H = f.perms \cup G OBVIOUS
<1>pp. PICK p : p = Top.args[i] OBVIOUS
<1>kk. PICK k : k = f.loans[p.loan].kind OBVIOUS
<1>MM. PICK M : M = ReborrowLoan(f.loans, d, p.loan, v.range, k, FreshToken(f)) OBVIOUS
<1>qq. PICK q : q = Carrier(v.allocation, v.range, d, FreshToken(f)) OBVIOUS
<1>hh. PICK h : h = Minted(f, M, q) OBVIOUS
<1>gg. PICK g : g = [h EXCEPT !.perms = @ \cup G] OBVIOUS
<1>1. f \in Frame /\ Accounts(f, H) /\ \A x \in G : x.loan \in LoanIds
  BY <1>0, <1>ff, <1>GG, <1>HH, CallerFrame DEF Passed
<1>2. G \in SUBSET Permission /\ p \in G BY <1>GG, <1>pp, TopFrame, GivenBackType
<1>3. /\ ParentReady(f, p, v) /\ ReturnTo(g) /\ ~Live(f.loans, d)
      /\ Cardinality(Chain(f.loans, p.loan)) <= MaxDepth /\ ActiveCount(f.loans) < MaxActiveLoans
  BY <1>hh, <1>gg, <1>ff, <1>GG, <1>pp, <1>kk, <1>MM, <1>qq DEF ReturnReborrow
<1>5. f.loans \in Table /\ TableInv(f.loans) /\ FreshToken(f) \in Nat
  BY <1>1, FrameFields, FreshIsNew DEF Accounts
<1>m. PICK m \in LoanIds : m = p.loan BY <1>1, <1>2
<1>7. v \in Permission /\ v.range \in Range BY TopFrame, FrameFields DEF Permission
<1>d. d \in LoanIds /\ d # NoLoan /\ \A j \in DOMAIN ParamLoans : ParamLoans[j] # d
  BY CallsAssumption, LoanTableAssumption
<1>4. k \in Kind /\ ReborrowAllowed(f.loans, d, m, v.range, k, p.token)
  <2>1. /\ f.loans[m].activity = "Active" /\ p.token \in f.loans[m].authorities
        /\ Contains(f.loans[m].range, v.range)
    BY <1>3, <1>m DEF ParentReady
  <2>2. ~CreationConflict(f.loans, f.loans[m].allocation, v.range, k, Chain(f.loans, m))
    BY <2>1, <1>5, <1>7, <1>m, <1>kk, SameKindNoConflict
  <2>3. k \in Kind BY <1>5, <1>m, <1>kk DEF Table, Loan
  <2>4. Live(f.loans, m) BY <2>1 DEF Live
  <2>5. CanCreate(f.loans, d) BY <1>0, <1>3 DEF CanCreate
  <2> QED BY <2>1, <2>2, <2>3, <2>4, <2>5, <1>3, <1>m, <1>kk DEF ReborrowAllowed
<1>6. M \in Table BY <1>MM, <1>4, <1>5, <1>7, <1>d, <1>m, ReborrowInv
<1>8. /\ q \in Permission /\ q.loan = d
  BY <1>qq, <1>5, <1>7, <1>d DEF Permission, Carrier
<1>9. /\ h \in Frame /\ h.loans = M /\ h.next = f.next + 1 /\ h.perms = f.perms \cup {q}
      /\ h.invocation = f.invocation /\ h.args = f.args /\ h.alias = f.alias
  BY <1>hh, <1>1, <1>6, <1>8, MintedFrame
<1>10. /\ g \in Frame /\ g.loans = M /\ g.next = f.next + 1 /\ g.perms = H \cup {q}
       /\ g.invocation = f.invocation /\ g.args = f.args /\ g.alias = f.alias
  <2>1. /\ g \in Frame /\ g.loans = h.loans /\ g.next = h.next /\ g.perms = h.perms \cup G
        /\ g.invocation = h.invocation /\ g.args = h.args /\ g.alias = h.alias
    BY <1>gg, <1>2, <1>9, RefilledFrame
  <2> QED BY <2>1, <1>9, <1>HH
<1>11. Continues(f, g) BY <1>HH, <1>1, <1>d, <1>8, <1>10, LoanTableAssumption DEF Continues
<1>12. q = Carrier(f.loans[m].allocation, v.range, d, FreshToken(f))
  BY <1>3, <1>m, <1>qq DEF ParentReady
<1>13. Kept(f, g) /\ Accounts(g, H \cup {q})
  <2>1. g.loans = ReborrowLoan(f.loans, d, m, v.range, k, FreshToken(f)) BY <1>10, <1>m, <1>MM
  <2> QED BY <2>1, <1>1, <1>4, <1>7, <1>10, <1>11, <1>12, <1>d, ReborrowStep
<1>14. Accounts(g, g.perms) BY <1>10, <1>13
<1> QED BY <1>0, <1>3, <1>10, <1>13, <1>14, <1>ff, ReturnInv

-----------------------------------------------------------------------------
(* Calls. *)

\* An argument is an active loan of the caller, over the argument's bytes.
LEMMA ArgumentActive ==
    ASSUME NEW f \in Frame, NEW p \in Permission, ArgumentAllowed(f, p)
    PROVE  /\ p.loan \in LoanIds /\ f.loans[p.loan].activity = "Active"
           /\ p.token \in f.loans[p.loan].authorities
           /\ f.loans[p.loan].allocation = p.allocation
           /\ Contains(f.loans[p.loan].range, p.range)
<1>1. p.loan \in LoanIds BY DEF ArgumentAllowed, Permission
<1> QED BY <1>1 DEF ArgumentAllowed, CheckAccess, AuthorityAccess

\* Two arguments of a call that share a byte are both shared references.
LEMMA ArgumentsDisjoint ==
    ASSUME NEW f \in Frame, NEW H, Accounts(f, H), NEW p \in H, NEW q \in H, p # q,
           ArgumentAllowed(f, p), ArgumentAllowed(f, q), p.allocation = q.allocation,
           NEW r \in Range, NEW s \in Range, Contains(p.range, r), Contains(q.range, s),
           Overlap(r, s)
    PROVE  BothShared(f.loans[p.loan].kind, f.loans[q.loan].kind)
<1> SUFFICES ASSUME ~BothShared(f.loans[p.loan].kind, f.loans[q.loan].kind) PROVE FALSE OBVIOUS
<1> DEFINE L == f.loans
<1>1. L \in Table /\ TableInv(L) /\ p \in Permission /\ q \in Permission
  BY FrameFields DEF Accounts
<1>2. PICK x \in LoanIds : x = p.loan BY <1>1, ArgumentActive
<1>3. PICK y \in LoanIds : y = q.loan BY <1>1, ArgumentActive
<1>4. /\ L[x].activity = "Active" /\ p.token \in L[x].authorities
      /\ L[x].allocation = p.allocation /\ Contains(L[x].range, p.range)
      /\ L[y].activity = "Active" /\ q.token \in L[y].authorities
      /\ L[y].allocation = q.allocation /\ Contains(L[y].range, q.range)
  BY <1>1, <1>2, <1>3, ArgumentActive
<1>5. Overlap(L[x].range, L[y].range) /\ Overlap(L[y].range, L[x].range)
  <2>1. /\ L[x].range \in Range /\ L[y].range \in Range /\ p.range \in Range /\ q.range \in Range
    BY <1>1 DEF Table, Loan, Permission
  <2>2. \A e \in Range : e.start \in Int /\ e.end \in Int
    BY LoanTableAssumption DEF Range, Offsets
  <2> HIDE DEF L
  <2> QED BY <2>1, <2>2, <1>4 DEF Overlap, Contains
<1>6. CASE x = y
  <2>1. L[x].kind = "Mutable"
    <3>1. L[x].kind \in Kind BY <1>1 DEF Table, Loan
    <3> QED BY <3>1, <1>2, <1>3, <1>6 DEF BothShared, Kind
  <2>2. p.token = q.token BY <2>1, <1>1, <1>4, <1>6 DEF TableInv, Held
  <2>3. p.loan # NoLoan BY <1>2, LoanTableAssumption
  <2> QED BY <2>2, <2>3 DEF Accounts
<1>7. CASE x # y
  <2>0. Live(L, x) /\ Live(L, y) /\ x \in LiveLoans(L) /\ y \in LiveLoans(L)
    BY <1>4 DEF Live, LiveLoans
  <2>1. ~BothShared(L[x].kind, L[y].kind) /\ ~BothShared(L[y].kind, L[x].kind)
    BY <1>2, <1>3 DEF BothShared
  <2> HIDE DEF L
  <2>2. y \in Chain(L, x) /\ x \in Chain(L, y)
    BY <2>0, <2>1, <1>1, <1>4, <1>5, ActiveLoansExclude
  <2>3. HasActiveChild(L, x) /\ HasActiveChild(L, y)
    BY <2>0, <2>2, <1>1, <1>7, ChainChild DEF TableInv
  <2>4. L[x].kind # "Mutable" /\ L[y].kind # "Mutable"
    BY <2>0, <2>3, <1>1, <1>4 DEF TableInv, SuspendedWhileLent
  <2>5. L[x].kind \in Kind /\ L[y].kind \in Kind BY <1>1 DEF Table, Loan
  <2> QED BY <2>1, <2>4, <2>5 DEF BothShared, Kind
<1> QED BY <1>6, <1>7

\* What import_parameters leaves in the callee's table: the i-th parameter at its
\* own loan, and nothing else.
LEMMA ImportedAt ==
    ASSUME NEW f \in Frame, NEW n \in 1 .. Len(ParamLoans), NEW args, DOMAIN args = 1 .. n,
           NEW ranges, NEW v \in Nat, NEW L, L = ImportedLoans(f, args, ranges, v)
    PROVE  /\ \A i \in 1 .. n :
                 L[ParamLoans[i]] = NewLoan(args[i].allocation, ranges[i],
                                            f.loans[args[i].loan].kind, NoLoan,
                                            v * MaxTokens + (i - 1))
           /\ \A l \in LoanIds : (\A i \in 1 .. n : ParamLoans[i] # l) => L[l] = Blank
<1> DEFINE E(i) == NewLoan(args[i].allocation, ranges[i], f.loans[args[i].loan].kind, NoLoan,
                           v * MaxTokens + (i - 1))
<1>1. DOMAIN args = 1 .. n OBVIOUS
<1>2. /\ \A i \in 1 .. n : i \in DOMAIN ParamLoans /\ ParamLoans[i] \in LoanIds
      /\ \A i, j \in 1 .. n : ParamLoans[i] = ParamLoans[j] => i = j
  BY CallsAssumption
<1>3. \A l \in LoanIds : L[l] = IF \E i \in 1 .. n : ParamLoans[i] = l
                                THEN E(CHOOSE i \in 1 .. n : ParamLoans[i] = l) ELSE Blank
  BY <1>1 DEF ImportedLoans
<1>4. ASSUME NEW i \in 1 .. n PROVE L[ParamLoans[i]] = E(i)
  <2>1. (CHOOSE j \in 1 .. n : ParamLoans[j] = ParamLoans[i]) = i BY <1>2
  <2>2. ParamLoans[i] \in LoanIds BY <1>2
  <2> HIDE DEF E
  <2> QED BY <2>1, <2>2, <1>3
<1>5. \A l \in LoanIds : (\A i \in 1 .. n : ParamLoans[i] # l) => L[l] = Blank BY <1>3
<1> QED BY <1>4, <1>5

\* The arguments of a call that prepare_call accepts.
Prepared(f, n, args, ranges) ==
    /\ \A i, j \in 1 .. n : i # j => args[i] # args[j]
    /\ \A i \in 1 .. n : ArgumentAllowed(f, args[i]) /\ Contains(args[i].range, ranges[i])

\* The table that a callee starts with is sound, although import_parameters looks
\* for no conflict between the parameters.
LEMMA ImportTable ==
    ASSUME NEW f \in Frame, NEW H, Accounts(f, H), NEW n \in 1 .. Len(ParamLoans),
           NEW args \in [1 .. n -> H], NEW ranges \in [1 .. n -> Range], NEW v \in Nat,
           Prepared(f, n, args, ranges)
    PROVE  LET L == ImportedLoans(f, args, ranges, v) IN
           /\ L \in Table /\ TableInv(L)
           /\ \A l \in LiveLoans(L) : \E i \in 1 .. n : l = ParamLoans[i]
<1>L. PICK L : L = ImportedLoans(f, args, ranges, v) OBVIOUS
<1>1. \A i \in 1 .. n : args[i] \in H /\ args[i] \in Permission /\ ranges[i] \in Range
  BY DEF Accounts
<1>2. \A i \in 1 .. n : ParamLoans[i] \in LoanIds BY CallsAssumption
<1>3. \A i \in 1 .. n : args[i].loan \in LoanIds /\ args[i].allocation \in Allocations
  <2> SUFFICES ASSUME NEW i \in 1 .. n
               PROVE  args[i].loan \in LoanIds /\ args[i].allocation \in Allocations
    OBVIOUS
  <2>1. args[i].loan \in LoanIds BY <1>1, ArgumentActive DEF Prepared
  <2> QED BY <2>1, <1>1 DEF Permission
<1>4. \A i \in 1 .. n : f.loans[args[i].loan].kind \in Kind
  BY <1>3, FrameFields DEF Table, Loan
<1>5. /\ \A i \in 1 .. n :
            L[ParamLoans[i]] = NewLoan(args[i].allocation, ranges[i],
                                       f.loans[args[i].loan].kind, NoLoan,
                                       v * MaxTokens + (i - 1))
      /\ \A l \in LoanIds : (\A i \in 1 .. n : ParamLoans[i] # l) => L[l] = Blank
  <2>1. DOMAIN args = 1 .. n OBVIOUS
  <2> QED BY <2>1, <1>L, ImportedAt
<1>6. \A i \in 1 .. n : LET N == L[ParamLoans[i]] IN
         /\ N \in Loan /\ N.activity = "Active" /\ N.parent = NoLoan
         /\ N.allocation = args[i].allocation /\ N.range = ranges[i]
         /\ N.kind = f.loans[args[i].loan].kind
         /\ N.authorities = {v * MaxTokens + (i - 1)}
  <2> SUFFICES ASSUME NEW i \in 1 .. n
               PROVE  LET N == L[ParamLoans[i]] IN
                      /\ N \in Loan /\ N.activity = "Active" /\ N.parent = NoLoan
                      /\ N.allocation = args[i].allocation /\ N.range = ranges[i]
                      /\ N.kind = f.loans[args[i].loan].kind
                      /\ N.authorities = {v * MaxTokens + (i - 1)}
    OBVIOUS
  <2>1. PICK t : t = v * MaxTokens + (i - 1) OBVIOUS
  <2>2. PICK b \in Nat : b = v * MaxTokens BY CallsAssumption
  <2>3. t \in Nat BY <2>1, <2>2
  <2>4. PICK N : N = L[ParamLoans[i]] OBVIOUS
  <2>5. N = NewLoan(args[i].allocation, ranges[i], f.loans[args[i].loan].kind, NoLoan, t)
    BY <2>1, <2>4, <1>5
  <2>6. args[i].allocation \in Allocations /\ ranges[i] \in Range
           /\ f.loans[args[i].loan].kind \in Kind
    BY <1>1, <1>3, <1>4
  <2>7. /\ N \in Loan /\ N.activity = "Active" /\ N.parent = NoLoan
        /\ N.allocation = args[i].allocation /\ N.range = ranges[i]
        /\ N.kind = f.loans[args[i].loan].kind
        /\ N.authorities = {t}
    BY <2>3, <2>5, <2>6 DEF NewLoan, Loan, Activity
  <2> QED BY <2>1, <2>4, <2>7
<1>7. Blank \in Loan /\ Blank.activity = "Ended" /\ Blank.authorities = {} /\ Blank.parent = NoLoan
         /\ Blank.kind = "Shared"
  BY BlankLoan DEF Blank
<1>8. \A l \in LoanIds : (\E i \in 1 .. n : l = ParamLoans[i]) \/ L[l] = Blank BY <1>5
<1>9. L \in Table
  <2>1. L = [l \in LoanIds |-> L[l]] BY <1>L DEF ImportedLoans
  <2>2. \A l \in LoanIds : L[l] \in Loan BY <1>6, <1>7, <1>8
  <2> QED BY <2>1, <2>2 DEF Table
<1>10. \A l \in LoanIds : L[l].parent = NoLoan BY <1>6, <1>7, <1>8
<1>11. \A l \in LiveLoans(L) : \E i \in 1 .. n : l = ParamLoans[i]
  BY <1>7, <1>8 DEF LiveLoans, Live
<1>12. Held(L)
  <2> SUFFICES ASSUME NEW l \in LoanIds
               PROVE  /\ Live(L, l) <=> L[l].authorities # {}
                      /\ L[l].kind = "Mutable" => \A t, u \in L[l].authorities : t = u
    BY DEF Held
  <2>1. CASE L[l] = Blank BY <2>1, <1>7 DEF Live
  <2>2. CASE \E i \in 1 .. n : l = ParamLoans[i]
    <3>1. PICK i \in 1 .. n : l = ParamLoans[i] BY <2>2
    <3>2. L[l].activity = "Active" /\ L[l].authorities = {v * MaxTokens + (i - 1)} BY <3>1, <1>6
    <3> QED BY <3>2 DEF Live
  <2> QED BY <2>1, <2>2, <1>8
<1>13. Nested(L) BY <1>10, LoanTableAssumption DEF Nested, LiveLoans
<1>14. SuspendedWhileLent(L)
  <2>1. \A l \in LoanIds : ~HasActiveChild(L, l)
    BY <1>10, LoanTableAssumption DEF HasActiveChild
  <2>2. \A l \in LiveLoans(L) : l \in LoanIds /\ L[l].activity = "Active"
    BY <1>6, <1>11 DEF LiveLoans
  <2> QED BY <2>1, <2>2 DEF SuspendedWhileLent
<1>15. Exclusive(L)
  <2> SUFFICES ASSUME NEW l \in LiveLoans(L), NEW m \in LiveLoans(L),
                      L[l].allocation = L[m].allocation, Overlap(L[l].range, L[m].range),
                      ~BothShared(L[l].kind, L[m].kind)
               PROVE  l = m
    <3>1. \A l \in LiveLoans(L) : l \in Chain(L, l) BY ChainSelf DEF LiveLoans
    <3> QED BY <3>1 DEF Exclusive
  <2>1. PICK i \in 1 .. n : l = ParamLoans[i] BY <1>11
  <2>2. PICK j \in 1 .. n : m = ParamLoans[j] BY <1>11
  <2>3. SUFFICES ASSUME i # j PROVE FALSE BY <2>1, <2>2
  <2>4. /\ args[i] \in H /\ args[j] \in H /\ args[i] # args[j]
        /\ ArgumentAllowed(f, args[i]) /\ ArgumentAllowed(f, args[j])
        /\ Contains(args[i].range, ranges[i]) /\ Contains(args[j].range, ranges[j])
        /\ ranges[i] \in Range /\ ranges[j] \in Range
    BY <2>3, <1>1 DEF Prepared
  <2>5. /\ args[i].allocation = args[j].allocation /\ Overlap(ranges[i], ranges[j])
        /\ ~BothShared(f.loans[args[i].loan].kind, f.loans[args[j].loan].kind)
    BY <2>1, <2>2, <1>6
  <2> QED BY <2>4, <2>5, ArgumentsDisjoint
<1> QED BY <1>9, <1>11, <1>12, <1>13, <1>14, <1>15, <1>L DEF TableInv

\* In table L exactly the first n parameters are lent, the i-th to permission c[i].
LentTo(L, n, c, b) ==
    /\ \A i \in 1 .. n :
          /\ c[i] \in Permission /\ c[i].loan = ParamLoans[i] /\ c[i].token = b + (i - 1)
          /\ ~c[i].free
          /\ L[ParamLoans[i]].allocation = c[i].allocation /\ L[ParamLoans[i]].range = c[i].range
          /\ L[ParamLoans[i]].authorities = {b + (i - 1)}
    /\ \A l \in LoanIds : (\A i \in 1 .. n : ParamLoans[i] # l) => L[l].authorities = {}

\* P consists of the n permissions c.
ConsistsOf(P, n, c) ==
    (\A i \in 1 .. n : c[i] \in P) /\ \A p \in P : \E i \in 1 .. n : p = c[i]

\* The permissions that a callee gets for n arguments.
Granted(n, args, ranges, v) ==
    [i \in 1 .. n |-> Carrier(args[i].allocation, ranges[i], ParamLoans[i],
                              v * MaxTokens + (i - 1))]

\* import_parameters gives each parameter one holder, the permission passed for it.
LEMMA ImportLends ==
    ASSUME NEW f \in Frame, NEW n \in 1 .. Len(ParamLoans),
           NEW args \in [1 .. n -> Permission], NEW ranges \in [1 .. n -> Range], NEW v \in Nat,
           NEW L, L = ImportedLoans(f, args, ranges, v)
    PROVE  LentTo(L, n, Granted(n, args, ranges, v), v * MaxTokens)
<1>1. DOMAIN args = 1 .. n OBVIOUS
<1>2. /\ \A i \in 1 .. n :
            L[ParamLoans[i]] = NewLoan(args[i].allocation, ranges[i],
                                       f.loans[args[i].loan].kind, NoLoan,
                                       v * MaxTokens + (i - 1))
      /\ \A l \in LoanIds : (\A i \in 1 .. n : ParamLoans[i] # l) => L[l] = Blank
  BY <1>1, ImportedAt, SMTT(30)
<1>b. PICK b \in Nat : b = v * MaxTokens BY CallsAssumption
<1>c. PICK c : c = Granted(n, args, ranges, v) OBVIOUS
<1>3. ASSUME NEW i \in 1 .. n
      PROVE  /\ c[i] \in Permission /\ c[i].loan = ParamLoans[i] /\ c[i].token = b + (i - 1)
             /\ ~c[i].free
             /\ L[ParamLoans[i]].allocation = c[i].allocation
             /\ L[ParamLoans[i]].range = c[i].range
             /\ L[ParamLoans[i]].authorities = {b + (i - 1)}
  <2>1. PICK t \in Nat : t = b + (i - 1) OBVIOUS
  <2>2. PICK p : p = c[i] OBVIOUS
  <2>3. PICK N : N = L[ParamLoans[i]] OBVIOUS
  <2>4. p = Carrier(args[i].allocation, ranges[i], ParamLoans[i], t)
    BY <2>1, <2>2, <1>b, <1>c DEF Granted
  <2>5. N = NewLoan(args[i].allocation, ranges[i], f.loans[args[i].loan].kind, NoLoan, t)
    BY <2>1, <2>3, <1>2, <1>b
  <2>6. args[i].allocation \in Allocations /\ ranges[i] \in Range /\ ParamLoans[i] \in LoanIds
    BY CallsAssumption DEF Permission
  <2>7. /\ p \in Permission /\ p.loan = ParamLoans[i] /\ p.token = t /\ ~p.free
        /\ p.allocation = args[i].allocation /\ p.range = ranges[i]
    BY <2>4, <2>6 DEF Carrier, Permission
  <2>8. N.allocation = args[i].allocation /\ N.range = ranges[i] /\ N.authorities = {t}
    BY <2>5 DEF NewLoan
  <2> QED BY <2>1, <2>2, <2>3, <2>7, <2>8
<1>4. \A l \in LoanIds : (\A i \in 1 .. n : ParamLoans[i] # l) => L[l].authorities = {}
  BY <1>2, BlankLoan
<1>5. LentTo(L, n, c, b) BY <1>3, <1>4 DEF LentTo
<1> QED BY <1>5, <1>b, <1>c

\* The permissions of the callee are all the authorities of the table it starts
\* with.
LEMMA ImportAccounts ==
    ASSUME NEW n \in 1 .. Len(ParamLoans), NEW L \in Table, TableInv(L), NEW b \in Nat, NEW c,
           LentTo(L, n, c, b), NEW P, ConsistsOf(P, n, c),
           NEW g, g.invocation * MaxTokens = b, g.next = n, g.loans = L
    PROVE  Accounts(g, P) /\ \A p \in P : p.loan # NoLoan
<1>2. /\ \A i \in 1 .. n : ParamLoans[i] \in LoanIds /\ ParamLoans[i] # NoLoan
      /\ \A i, j \in 1 .. n : ParamLoans[i] = ParamLoans[j] => i = j
  BY CallsAssumption, LoanTableAssumption
<1>9. ASSUME NEW p \in P PROVE p \in Permission /\ p.loan # NoLoan /\ Carries(g, p)
  <2>1. PICK i \in 1 .. n : p = c[i] BY DEF ConsistsOf
  <2>2. /\ p.token = b + (i - 1) /\ p.loan = ParamLoans[i] /\ p.loan # NoLoan /\ p \in Permission
        /\ p.allocation = L[p.loan].allocation /\ L[p.loan].range = p.range /\ ~p.free
    BY <2>1, <1>2 DEF LentTo
  <2>3. p.token \in b .. b + n - 1 BY <2>2
  <2>5. p.range \in Range BY <2>2 DEF Permission
  <2>6. Contains(p.range, p.range)
    BY <2>5, LoanTableAssumption DEF Contains, Range, Offsets
  <2> QED BY <2>2, <2>3, <2>6 DEF Carries
<1>10. ASSUME NEW l \in LoanIds
       PROVE  L[l].authorities = {p.token : p \in {q \in P : q.loan = l}}
  <2>1. CASE \E i \in 1 .. n : ParamLoans[i] = l
    <3>1. PICK i \in 1 .. n : ParamLoans[i] = l BY <2>1
    <3>2. ASSUME NEW q \in P, q.loan = l PROVE q = c[i]
      <4>1. PICK j \in 1 .. n : q = c[j] BY DEF ConsistsOf
      <4>2. ParamLoans[j] = ParamLoans[i] BY <3>1, <3>2, <4>1 DEF LentTo
      <4> QED BY <4>1, <4>2, <1>2
    <3>5. c[i] \in P /\ c[i].loan = l BY <3>1 DEF LentTo, ConsistsOf
    <3>3. {q \in P : q.loan = l} = {c[i]} BY <3>2, <3>5
    <3>4. c[i].token = b + (i - 1) /\ L[l].authorities = {b + (i - 1)} BY <3>1 DEF LentTo
    <3> QED BY <3>3, <3>4
  <2>2. CASE \A i \in 1 .. n : ParamLoans[i] # l
    <3>1. ASSUME NEW q \in P PROVE q.loan # l
      <4>1. PICK j \in 1 .. n : q = c[j] BY DEF ConsistsOf
      <4>2. q.loan = ParamLoans[j] BY <4>1 DEF LentTo
      <4> QED BY <4>2, <2>2
    <3>2. L[l].authorities = {} BY <2>2 DEF LentTo
    <3> QED BY <3>1, <3>2
  <2> QED BY <2>1, <2>2
<1>11. ASSUME NEW p \in P, NEW q \in P, p.token = q.token PROVE p = q
  <2>1. PICK i \in 1 .. n : p = c[i] BY DEF ConsistsOf
  <2>2. PICK j \in 1 .. n : q = c[j] BY DEF ConsistsOf
  <2>3. b + (i - 1) = b + (j - 1) BY <2>1, <2>2, <1>11 DEF LentTo
  <2> QED BY <2>1, <2>2, <2>3
<1>12. Accounts(g, P) BY <1>9, <1>10, <1>11 DEF Accounts
<1> QED BY <1>9, <1>12

\* A function with more parameters has all the result relations of one with fewer.
LEMMA ResultsGrow ==
    ASSUME NEW n \in Nat, NEW m \in Nat, n <= m
    PROVE  Results(n) \subseteq Results(m)
<1>1. 1 .. n \subseteq 1 .. m OBVIOUS
<1> QED BY <1>1 DEF Results

\* The frame of a callee is well-formed.
LEMMA CalleeFrame ==
    ASSUME NEW f \in Frame, NEW n \in 1 .. Len(ParamLoans), NEW v \in Nat, v = nextInvocation,
           NEW args \in [1 .. n -> f.perms], NEW ranges, NEW result \in Results(n),
           NEW A \in SUBSET Permission,
           NEW L \in Table, L = ImportedLoans(f, args, ranges, v),
           NEW c, c = Granted(n, args, ranges, v),
           \A i \in 1 .. n : c[i] \in Permission,
           NEW g, g = Invocation(f, args, ranges, result, A)
    PROVE  /\ g \in Frame /\ g.invocation = v /\ g.loans = L /\ g.next = n
           /\ g.args = args /\ g.alias = A /\ ConsistsOf(g.perms, n, c)
<1>1. n \in Nat /\ Len(ParamLoans) \in Nat /\ n <= Len(ParamLoans) BY CallsAssumption
<1>2. args \in [1 .. n -> Permission] BY FrameFields
<1>3. args \in Seq(Permission) /\ Len(args) = n /\ DOMAIN args = 1 .. n BY <1>1, <1>2
<1>4. result \in Results(Len(ParamLoans)) BY <1>1, ResultsGrow
<1>5. PICK P : P = {Carrier(args[i].allocation, ranges[i], ParamLoans[i],
                            v * MaxTokens + (i - 1)) : i \in DOMAIN args}
  OBVIOUS
<1>6. (\A i \in 1 .. n : c[i] \in P) /\ \A p \in P : \E i \in 1 .. n : p = c[i]
  BY <1>3, <1>5 DEF Granted
<1>7. P \in SUBSET Permission BY <1>6
<1>8. g =
         [invocation |-> v, loans |-> L, next |-> n, perms |-> P,
          args |-> args, alias |-> A, result |-> result]
  BY <1>3, <1>5 DEF Invocation
<1>9. ConsistsOf(P, n, c) BY <1>6 DEF ConsistsOf
<1>10. L \in [LoanIds -> Loan] BY DEF Table
<1> QED BY <1>1, <1>3, <1>4, <1>7, <1>8, <1>9, <1>10 DEF Frame

\* What a frame f knows of the frame g that it calls with n arguments.
Sees(f, g, n, args) ==
    \A i \in 1 .. n :
        /\ args[i].loan \in LoanIds
        /\ f.loans[args[i].loan].activity = "Active"
        /\ g.loans[ParamLoans[i]].kind = f.loans[args[i].loan].kind
        /\ g.loans[ParamLoans[i]].allocation = args[i].allocation
        /\ Contains(args[i].range, g.loans[ParamLoans[i]].range)

\* A parameter is a view of its argument.
LEMMA CalleeSees ==
    ASSUME NEW f \in Frame, NEW n \in 1 .. Len(ParamLoans), NEW args \in [1 .. n -> Permission],
           NEW ranges, NEW v \in Nat, Prepared(f, n, args, ranges),
           NEW g, g.loans = ImportedLoans(f, args, ranges, v)
    PROVE  Sees(f, g, n, args)
<1> SUFFICES ASSUME NEW i \in 1 .. n
             PROVE  /\ args[i].loan \in LoanIds
                    /\ f.loans[args[i].loan].activity = "Active"
                    /\ g.loans[ParamLoans[i]].kind = f.loans[args[i].loan].kind
                    /\ g.loans[ParamLoans[i]].allocation = args[i].allocation
                    /\ Contains(args[i].range, g.loans[ParamLoans[i]].range)
  BY DEF Sees
<1>1. args[i] \in Permission /\ ArgumentAllowed(f, args[i]) /\ Contains(args[i].range, ranges[i])
  BY DEF Prepared
<1>2. args[i].loan \in LoanIds /\ f.loans[args[i].loan].activity = "Active"
  BY <1>1, ArgumentActive
<1>3. DOMAIN args = 1 .. n OBVIOUS
<1>4. g.loans[ParamLoans[i]] = NewLoan(args[i].allocation, ranges[i], f.loans[args[i].loan].kind,
                                       NoLoan, v * MaxTokens + (i - 1))
  BY <1>3, ImportedAt, SMTT(30)
<1>5. /\ g.loans[ParamLoans[i]].kind = f.loans[args[i].loan].kind
      /\ g.loans[ParamLoans[i]].allocation = args[i].allocation
      /\ g.loans[ParamLoans[i]].range = ranges[i]
  BY <1>4 DEF NewLoan
<1> QED BY <1>1, <1>2, <1>5

\* The frame of a callee is sound from the start.
LEMMA CalleeSound ==
    ASSUME NEW f \in Frame, Accounts(f, f.perms), NEW n \in 1 .. Len(ParamLoans),
           NEW args \in [1 .. n -> f.perms], NEW ranges \in [1 .. n -> Range],
           NEW result \in Results(n), Prepared(f, n, args, ranges),
           NEW A \in SUBSET Permission, nextInvocation \in Nat,
           NEW g, g = Invocation(f, args, ranges, result, A)
    PROVE  /\ g \in Frame /\ g.invocation = nextInvocation /\ g.args = args /\ g.alias = A
           /\ Accounts(g, g.perms) /\ Rooted(g) /\ Sees(f, g, n, args)
<1>v. PICK v \in Nat : v = nextInvocation OBVIOUS
<1>L. PICK L : L = ImportedLoans(f, args, ranges, v) OBVIOUS
<1>c. PICK c : c = Granted(n, args, ranges, v) OBVIOUS
<1>2. f.perms \subseteq Permission /\ args \in [1 .. n -> Permission] BY FrameFields
<1>3. L \in Table /\ TableInv(L) /\ \A l \in LiveLoans(L) : \E i \in 1 .. n : l = ParamLoans[i]
  BY <1>L, ImportTable
<1>4. LentTo(L, n, c, v * MaxTokens) BY <1>2, <1>L, <1>c, ImportLends
<1>5. \A i \in 1 .. n : c[i] \in Permission BY <1>4 DEF LentTo
<1>6. /\ g \in Frame /\ g.invocation = v /\ g.loans = L /\ g.next = n
      /\ g.args = args /\ g.alias = A /\ ConsistsOf(g.perms, n, c)
  BY <1>3, <1>5, <1>v, <1>L, <1>c, CalleeFrame, SMTT(30)
<1>7. Accounts(g, g.perms) /\ \A p \in g.perms : p.loan # NoLoan
  <2>1. PICK b \in Nat : b = v * MaxTokens BY CallsAssumption
  <2>2. LentTo(L, n, c, b) /\ g.invocation * MaxTokens = b BY <2>1, <1>4, <1>6
  <2> QED BY <2>2, <1>3, <1>6, ImportAccounts, SMTT(30)
<1>9. Rooted(g)
  <2>1. \A l \in LiveLoans(L) : l \in Chain(L, l) BY ChainSelf DEF LiveLoans
  <2>2. DOMAIN g.args = 1 .. n BY <1>6
  <2>3. \A l \in LiveLoans(g.loans) : \E i \in DOMAIN g.args : ParamLoans[i] \in Chain(g.loans, l)
    BY <2>1, <2>2, <1>3, <1>6
  <2> QED BY <2>3, <1>7 DEF Rooted
<1>10. Sees(f, g, n, args) BY <1>2, <1>6, <1>L, CalleeSees
<1> QED BY <1>6, <1>7, <1>9, <1>10, <1>v

\* Frame h is f after it has given the arguments away; A is made for the result.
Gives(f, h, n, args, A) ==
    /\ \A x \in A : x.loan \in LoanIds /\ x \notin f.perms
    /\ \A x \in h.perms : x \in f.perms /\ \A i \in 1 .. n : x # args[i]
    /\ \A x \in f.perms : x \in h.perms \/ \E i \in 1 .. n : x = args[i]
    /\ \A l \in LoanIds : h.loans[l].activity = f.loans[l].activity
                             /\ h.loans[l].kind = f.loans[l].kind

\* A call hands over the arguments, and accounts for them.
LEMMA CallPasses ==
    ASSUME NEW f, NEW g, NEW h, NEW n \in 1 .. Len(ParamLoans), NEW args \in [1 .. n -> f.perms],
           NEW A, Gives(f, h, n, args, A), Sees(f, g, n, args), g.args = args, g.alias = A,
           Accounts(h, f.perms \cup A)
    PROVE  Accounts(h, h.perms \cup GivenBack(g)) /\ Passed(h, g)
<1>1. DOMAIN g.args = 1 .. n /\ \A i \in 1 .. n : args[i] \in f.perms OBVIOUS
<1>2. GivenBack(g) = {args[i] : i \in 1 .. n} \cup A BY <1>1 DEF GivenBack
<1>3. h.perms \cup GivenBack(g) = f.perms \cup A BY <1>1, <1>2 DEF Gives
<1>4. h.perms \cap GivenBack(g) = {} BY <1>2 DEF Gives
<1>5. \A p \in GivenBack(g) : p.loan \in LoanIds BY <1>2 DEF Gives, Sees
<1>6. 1 .. n \subseteq DOMAIN ParamLoans BY CallsAssumption
<1>7. ASSUME NEW i \in 1 .. n
      PROVE  /\ h.loans[args[i].loan].activity = "Active"
             /\ g.loans[ParamLoans[i]].kind = h.loans[args[i].loan].kind
             /\ g.loans[ParamLoans[i]].allocation = args[i].allocation
             /\ Contains(args[i].range, g.loans[ParamLoans[i]].range)
  BY DEF Gives, Sees
<1>8. Passed(h, g) BY <1>1, <1>4, <1>5, <1>6, <1>7 DEF Passed
<1> QED BY <1>3, <1>8

\* The running frame continues as h and calls g, whether it makes an alias for the
\* result or not.
LEMMA CallWith ==
    ASSUME StackInv, NEW f, f = Top, NEW n \in 1 .. Len(ParamLoans),
           NEW args \in [1 .. n -> f.perms], MaxAliases > 0,
           NEW A, NEW h \in Frame, Gives(f, h, n, args, A),
           Kept(f, h), Accounts(h, f.perms \cup A),
           NEW g \in Frame, g.invocation = nextInvocation, g.args = args, g.alias = A,
           Accounts(g, g.perms), Rooted(g), Sees(f, g, n, args),
           stack' = Pushed(stack, h, g),
           nextInvocation' = nextInvocation + 1
    PROVE  StackInv'
<1>3. Accounts(h, h.perms \cup GivenBack(g)) /\ Passed(h, g) BY CallPasses
<1>4. PICK m \in Nat : m = Len(stack) BY DEF StackInv
<1>6. stack \in Seq(Frame) /\ Len(stack) >= 1 BY DEF StackInv
<1>9. /\ stack' \in Seq(Frame) /\ Len(stack') = m + 1 /\ stack'[m] = h /\ stack'[m + 1] = g
      /\ \A k \in 1 .. m - 1 : stack'[k] = stack[k]
  BY <1>4, <1>6, PushStack
<1>10. Kept(stack[m], h) BY <1>4 DEF Top
<1> QED BY <1>3, <1>4, <1>9, <1>10, CallInv

\* The permissions that are passed.
Arguments(n, args) == {args[i] : i \in 1 .. n}

\* The caller's frame without the arguments, and with an alias for the result.
Given(f, G) == [f EXCEPT !.perms = @ \ G]
Aliased(f, l, t) == [f EXCEPT !.loans = AliasLoan(@, l, t), !.next = @ + 1]
WithToken(p, t) == [p EXCEPT !.token = t]

\* The fields of the caller's frame without the arguments.
LEMMA GivenFrame ==
    ASSUME NEW f \in Frame, NEW G, NEW h, h = Given(f, G)
    PROVE  /\ h \in Frame /\ h.loans = f.loans /\ h.next = f.next /\ h.perms = f.perms \ G
           /\ h.invocation = f.invocation /\ h.args = f.args /\ h.alias = f.alias
<1>1. f.perms \ G \in SUBSET Permission BY DEF Frame
<1>2. h = [f EXCEPT !.perms = f.perms \ G] BY DEF Frame, Given
<1> QED BY <1>1, <1>2 DEF Frame

\* The same with one more holder of a loan.
LEMMA AliasedFrame ==
    ASSUME NEW f \in Frame, NEW l, NEW t, AliasLoan(f.loans, l, t) \in Table,
           NEW h, h = Aliased(f, l, t)
    PROVE  /\ h \in Frame /\ h.loans = AliasLoan(f.loans, l, t) /\ h.next = f.next + 1
           /\ h.perms = f.perms
           /\ h.invocation = f.invocation /\ h.args = f.args /\ h.alias = f.alias
<1>1. PICK M : M = AliasLoan(f.loans, l, t) OBVIOUS
<1>2. M \in [LoanIds -> Loan] /\ f.next + 1 \in Nat BY <1>1 DEF Frame, Table
<1>3. h = [f EXCEPT !.loans = M, !.next = f.next + 1] BY <1>1 DEF Frame, Aliased
<1>4. /\ h \in Frame /\ h.loans = M /\ h.next = f.next + 1 /\ h.perms = f.perms
      /\ h.invocation = f.invocation /\ h.args = f.args /\ h.alias = f.alias
  BY <1>2, <1>3 DEF Frame
<1> QED BY <1>1, <1>4

\* A call that makes no alias.
LEMMA PlainCall ==
    ASSUME NEW f \in Frame, Accounts(f, f.perms), NEW n, NEW args,
           NEW h, h = Given(f, Arguments(n, args))
    PROVE  h \in Frame /\ Gives(f, h, n, args, {}) /\ Kept(f, h) /\ Accounts(h, f.perms \cup {})
<1>1. /\ h \in Frame /\ h.loans = f.loans /\ h.next = f.next
      /\ h.perms = f.perms \ Arguments(n, args)
      /\ h.invocation = f.invocation /\ h.args = f.args /\ h.alias = f.alias
  BY GivenFrame
<1>2. Gives(f, h, n, args, {}) BY <1>1 DEF Gives, Arguments
<1>3. Kept(f, h)
  <2>1. Continues(f, h) BY <1>1 DEF Continues
  <2> QED BY <2>1, <1>1, SameStep
<1>4. Accounts(h, f.perms) BY <1>1, SameAccounts
<1>5. f.perms \cup {} = f.perms OBVIOUS
<1> QED BY <1>1, <1>2, <1>3, <1>4, <1>5

\* A call that makes an alias of the shared argument p.
LEMMA AliasCall ==
    ASSUME NEW f \in Frame, Accounts(f, f.perms), NEW n, NEW args,
           NEW p \in f.perms, p.loan \in LoanIds, AliasAllowed(f.loans, p.loan, p.token),
           NEW q, q = WithToken(p, FreshToken(f)), NEW e, e = Given(f, Arguments(n, args)),
           NEW h, h = Aliased(e, q.loan, FreshToken(f))
    PROVE  /\ h \in Frame /\ Gives(f, h, n, args, {q}) /\ Kept(f, h)
           /\ Accounts(h, f.perms \cup {q}) /\ {q} \in SUBSET Permission
<1>1. /\ e \in Frame /\ e.loans = f.loans /\ e.next = f.next
      /\ e.perms = f.perms \ Arguments(n, args)
      /\ e.invocation = f.invocation /\ e.args = f.args /\ e.alias = f.alias
  BY GivenFrame
<1>2. f.loans \in Table /\ TableInv(f.loans) /\ FreshToken(f) \in Nat /\ p \in Permission
  BY FrameFields, FreshIsNew DEF Accounts
<1>3. /\ p.allocation = f.loans[p.loan].allocation /\ ~p.free
      /\ Contains(f.loans[p.loan].range, p.range)
  BY LoanTableAssumption DEF Accounts, Carries
<1>4. /\ q \in Permission /\ q.loan = p.loan /\ q.token = FreshToken(f) /\ q.free = p.free
      /\ q.allocation = p.allocation /\ q.range = p.range
  BY <1>2 DEF Permission, WithToken
<1>5. AliasLoan(e.loans, q.loan, FreshToken(f)) \in Table BY <1>1, <1>2, <1>4, AliasInv
<1>6. /\ h \in Frame /\ h.loans = AliasLoan(f.loans, p.loan, FreshToken(f)) /\ h.next = f.next + 1
      /\ h.perms = f.perms \ Arguments(n, args)
      /\ h.invocation = f.invocation /\ h.args = f.args /\ h.alias = f.alias
  BY <1>1, <1>4, <1>5, AliasedFrame
<1>7. Continues(f, h) BY <1>6 DEF Continues
<1>8. ~q.free BY <1>3, <1>4, Zenon
<1>9. Kept(f, h) /\ q \notin f.perms /\ Accounts(h, f.perms \cup {q})
  BY <1>3, <1>4, <1>6, <1>7, <1>8, AliasStep, SMTT(30)
<1>10. \A l \in LoanIds : h.loans[l].activity = f.loans[l].activity
                             /\ h.loans[l].kind = f.loans[l].kind
  BY <1>2, <1>6 DEF AliasLoan, Table, Loan
<1>11. Gives(f, h, n, args, {q}) BY <1>4, <1>6, <1>9, <1>10 DEF Gives, Arguments
<1> QED BY <1>4, <1>6, <1>9, <1>11

\* The argument a call mints an alias of.
Source(args, result) == args[CHOOSE i \in DOMAIN args : i \in result.params]

\* The argument that a shared result is an alias of.
LEMMA AliasSource ==
    ASSUME NEW f \in Frame, NEW n, NEW args \in [1 .. n -> f.perms], NEW ranges,
           NEW result, Accounts(f, f.perms), Prepared(f, n, args, ranges),
           ResultAllowed(f, args, result), MintsAlias(f, args, result),
           NEW p, p = Source(args, result)
    PROVE  /\ p \in f.perms /\ p.loan \in LoanIds /\ f.loans[p.loan].activity = "Active"
           /\ f.loans[p.loan].kind = "Shared" /\ p.token \in f.loans[p.loan].authorities
<1>1. DOMAIN args = 1 .. n OBVIOUS
<1>2. PICK j \in result.params : f.loans[args[j].loan].kind = "Shared" BY DEF MintsAlias
<1>3. PICK i \in 1 .. n : i \in result.params /\ p = args[i]
  <2>1. \E i \in DOMAIN args : i \in result.params BY <1>2 DEF ResultAllowed
  <2> QED BY <2>1, <1>1 DEF Source
<1>4. f.loans[args[i].loan].kind = "Shared" BY <1>2, <1>3 DEF ResultAllowed
<1>5. p \in f.perms /\ p \in Permission /\ ArgumentAllowed(f, p)
  BY <1>3 DEF Prepared, Accounts
<1>6. /\ p.loan \in LoanIds /\ f.loans[p.loan].activity = "Active"
      /\ p.token \in f.loans[p.loan].authorities
  BY <1>5, ArgumentActive
<1> QED BY <1>3, <1>4, <1>5, <1>6

\* What a call that mints an alias does.
LEMMA CallMints ==
    ASSUME NEW args, NEW ranges, NEW result, Call(args, ranges, result),
           MintsAlias(Top, args, result),
           NEW q, q = WithToken(Source(args, result), FreshToken(Top))
    PROVE  /\ ResultAllowed(Top, args, result)
           /\ Cardinality(Top.loans[q.loan].authorities) < MaxAliases
           /\ stack' = Pushed(stack, Aliased(Given(Top, {args[i] : i \in DOMAIN args}),
                                            q.loan, FreshToken(Top)),
                              Invocation(Top, args, ranges, result, {q}))
BY DEF Call, Source, WithToken, Given, Aliased, Pushed

\* Call keeps the invariant.
LEMMA CallKeeps ==
    ASSUME StackInv, NEW n \in 1 .. Len(ParamLoans), NEW args \in [1 .. n -> Top.perms],
           NEW ranges \in [1 .. n -> Range], NEW result \in Results(n),
           Call(args, ranges, result)
    PROVE  StackInv'
<1>f. PICK f : f = Top OBVIOUS
<1>1. f \in Frame /\ Accounts(f, f.perms) /\ nextInvocation \in Nat BY <1>f, TopFrame DEF StackInv
<1>2. args \in [1 .. n -> f.perms] /\ DOMAIN args = 1 .. n BY <1>f
<1>3. Prepared(f, n, args, ranges) BY <1>f, <1>2 DEF Call, Prepared
<1>4. MaxAliases > 0 /\ nextInvocation' = nextInvocation + 1 BY DEF Call
<1>5. Arguments(n, args) = {args[i] : i \in DOMAIN args} BY <1>2 DEF Arguments
<1>6. CASE ~MintsAlias(f, args, result)
  <2>1. PICK h : h = Given(f, Arguments(n, args)) OBVIOUS
  <2>2. PICK g : g = Invocation(f, args, ranges, result, {}) OBVIOUS
  <2>3. stack' = Pushed(stack, h, g)
    BY <2>1, <2>2, <1>5, <1>6, <1>f DEF Call, Given, Pushed
  <2>4. h \in Frame /\ Gives(f, h, n, args, {}) /\ Kept(f, h) /\ Accounts(h, f.perms \cup {})
    BY <2>1, <1>1, PlainCall
  <2>5. {} \in SUBSET Permission OBVIOUS
  <2>6. /\ g \in Frame /\ g.invocation = nextInvocation /\ g.args = args /\ g.alias = {}
        /\ Accounts(g, g.perms) /\ Rooted(g) /\ Sees(f, g, n, args)
    BY <2>2, <2>5, <1>1, <1>2, <1>3, CalleeSound, SMTT(30)
  <2>7. PICK A : A = {} OBVIOUS
  <2>8. Gives(f, h, n, args, A) /\ Accounts(h, f.perms \cup A) /\ g.alias = A
    BY <2>4, <2>6, <2>7
  <2> QED BY <2>3, <2>4, <2>6, <2>8, <1>2, <1>4, <1>f, CallWith, SMTT(30)
<1>7. CASE MintsAlias(f, args, result)
  <2>0. PICK p : p = Source(args, result) OBVIOUS
  <2>1. PICK q : q = WithToken(p, FreshToken(f)) OBVIOUS
  <2>2. PICK e : e = Given(f, Arguments(n, args)) OBVIOUS
  <2>3. PICK h : h = Aliased(e, q.loan, FreshToken(f)) OBVIOUS
  <2>4. PICK g : g = Invocation(f, args, ranges, result, {q}) OBVIOUS
  <2>5. /\ ResultAllowed(f, args, result)
        /\ Cardinality(f.loans[q.loan].authorities) < MaxAliases
        /\ stack' = Pushed(stack, h, g)
    <3>2. MintsAlias(Top, args, result) BY <1>7, <1>f
    <3>3. /\ ResultAllowed(Top, args, result)
          /\ Cardinality(Top.loans[q.loan].authorities) < MaxAliases
          /\ stack' = Pushed(stack, Aliased(Given(Top, {args[i] : i \in DOMAIN args}),
                                           q.loan, FreshToken(Top)),
                             Invocation(Top, args, ranges, result, {q}))
      BY <3>2, <2>0, <2>1, <1>f, CallMints
    <3>4. h = Aliased(Given(Top, {args[i] : i \in DOMAIN args}), q.loan, FreshToken(Top))
      BY <2>2, <2>3, <1>5, <1>f
    <3>5. g = Invocation(Top, args, ranges, result, {q}) BY <2>4, <1>f
    <3> QED BY <3>3, <3>4, <3>5, <1>f
  <2>6. /\ p \in f.perms /\ p.loan \in LoanIds /\ f.loans[p.loan].activity = "Active"
        /\ f.loans[p.loan].kind = "Shared" /\ p.token \in f.loans[p.loan].authorities
    BY <2>0, <2>5, <1>1, <1>2, <1>3, <1>7, AliasSource, SMTT(30)
  <2>7. p \in Permission BY <2>6, <1>1, FrameFields
  <2>8. q.loan = p.loan BY <2>1, <2>7 DEF WithToken, Permission
  <2>9. AliasAllowed(f.loans, p.loan, p.token) BY <2>5, <2>6, <2>8 DEF AliasAllowed
  <2>10. PICK A : A = {q} OBVIOUS
  <2>11. /\ h \in Frame /\ Gives(f, h, n, args, A) /\ Kept(f, h)
         /\ Accounts(h, f.perms \cup A) /\ A \in SUBSET Permission
    BY <2>1, <2>2, <2>3, <2>6, <2>9, <2>10, <1>1, AliasCall
  <2>12. /\ g \in Frame /\ g.invocation = nextInvocation /\ g.args = args /\ g.alias = A
         /\ Accounts(g, g.perms) /\ Rooted(g) /\ Sees(f, g, n, args)
    BY <2>4, <2>10, <2>11, <1>1, <1>2, <1>3, CalleeSound, SMTT(30)
  <2> QED BY <2>5, <2>11, <2>12, <1>2, <1>4, <1>f, CallWith, SMTT(30)
<1> QED BY <1>6, <1>7

-----------------------------------------------------------------------------
(* The theorems. *)

\* The root frame owns all storage and nobody has borrowed from it yet.
LEMMA StackInvInit == Init => StackInv
<1> SUFFICES ASSUME Init PROVE StackInv OBVIOUS
<1>1. PICK L : L = [l \in LoanIds |-> Blank] OBVIOUS
<1>2. PICK P : P = {Owner(a, [start |-> 0, end |-> Size], FALSE) : a \in Allocations} OBVIOUS
<1>3. PICK f : f = [invocation |-> 0, loans |-> L, next |-> 0, perms |-> P, args |-> <<>>,
                    alias |-> {}, result |-> [form |-> "None", params |-> {}]]
  OBVIOUS
<1>4. stack = <<f>> /\ nextInvocation = 1 BY <1>1, <1>2, <1>3 DEF Init
<1>5. L \in Table /\ TableInv(L) BY <1>1, BlankTable
<1>6. \A p \in P : p \in Permission /\ p.loan = NoLoan /\ p.token = NoToken
  <2>1. PICK r : r = [start |-> 0, end |-> Size] OBVIOUS
  <2>2. r \in Range BY <2>1, LoanTableAssumption DEF Range, Offsets
  <2>3. \A a \in Allocations : LET p == Owner(a, r, FALSE) IN
           p \in Permission /\ p.loan = NoLoan /\ p.token = NoToken
    BY <2>2 DEF Owner, Permission
  <2> QED BY <2>1, <2>3, <1>2
<1>7. f \in Frame
  <2>1. [form |-> "None", params |-> {}] \in Results(Len(ParamLoans)) BY DEF Results
  <2>2. P \in SUBSET Permission /\ L \in [LoanIds -> Loan] BY <1>5, <1>6 DEF Table
  <2>3. <<>> \in Seq(Permission) OBVIOUS
  <2> QED BY <2>1, <2>2, <2>3, <1>3 DEF Frame
<1>8. f.perms = P /\ f.loans = L /\ f.invocation = 0 BY <1>3
<1>9. \A l \in LoanIds : L[l].authorities = {p.token : p \in {q \in P : q.loan = l}}
  <2>1. \A l \in LoanIds : L[l].authorities = {} BY <1>1, BlankLoan
  <2>2. \A l \in LoanIds : {q \in P : q.loan = l} = {} BY <1>6, LoanTableAssumption
  <2> QED BY <2>1, <2>2
<1>10. Accounts(f, P) BY <1>5, <1>6, <1>8, <1>9 DEF Accounts, Carries
<1>11. stack \in Seq(Frame) /\ Len(stack) = 1 /\ stack[1] = f BY <1>4, <1>7
<1>12. Holders(1) = P BY <1>8, <1>11 DEF Holders
<1> QED BY <1>4, <1>8, <1>10, <1>11, <1>12 DEF StackInv

\* Every step keeps the invariant.
LEMMA StackInvNext ==
    ASSUME StackInv, [Next]_vars
    PROVE  StackInv'
<1>1. CASE UNCHANGED vars BY <1>1 DEF vars, StackInv, Holders
<1>2. ASSUME NEW l \in BodyLoans, NEW p \in Top.perms, NEW r \in Range, NEW k \in Kind,
             LoanBegin(l, p, r, k)
      PROVE  StackInv'
  BY <1>2, LoanBeginInv
<1>3. ASSUME NEW l \in BodyLoans, NEW p \in Top.perms, NEW r \in Range, NEW k \in Kind,
             LoanReborrow(l, p, r, k)
      PROVE  StackInv'
  BY <1>3, LoanReborrowInv
<1>4. ASSUME NEW p \in Top.perms, LoanAlias(p) PROVE StackInv' BY <1>4, LoanAliasInv
<1>5. ASSUME NEW p \in Top.perms, LoanEnd(p) PROVE StackInv' BY <1>5, LoanEndInv
<1>6. ASSUME NEW n \in 1 .. Len(ParamLoans), NEW args \in [1 .. n -> Top.perms],
             NEW ranges \in [1 .. n -> Range], NEW result \in Results(n),
             Call(args, ranges, result)
      PROVE  StackInv'
  BY <1>6, CallKeeps
<1>7. ASSUME NEW slots, NEW V, Return(slots, V) PROVE StackInv' BY <1>7, ReturnKeeps
<1>8. ASSUME NEW slots, NEW v \in Top.perms, NEW i \in RootParam(Top, v), ReturnAlias(slots, v, i)
      PROVE  StackInv'
  BY <1>8, ReturnAliasKeeps DEF RootParam
<1>9. ASSUME NEW slots, NEW v \in Top.perms, NEW i \in RootParam(Top, v), NEW d \in DynamicLoans,
             ReturnReborrow(slots, v, i, d)
      PROVE  StackInv'
  BY <1>9, ReturnReborrowKeeps DEF RootParam
<1>10. LoanStep => StackInv' BY <1>2, <1>3, <1>4, <1>5 DEF LoanStep
<1>11. CallStep => StackInv' BY <1>6 DEF CallStep
<1>12. ReturnStep => StackInv' BY <1>7, <1>8, <1>9 DEF ReturnStep
<1> QED BY <1>1, <1>10, <1>11, <1>12 DEF Next

\* The inductive invariant of the stack holds in every reachable state.
THEOREM StackInvHolds == Spec => []StackInv
BY StackInvInit, StackInvNext, PTL DEF Spec

\* Every frame is well-formed and its authorities name tokens of its own
\* invocation, at any depth of calls.
THEOREM CallsTypeOK == Spec => []TypeOK
<1>1. StackInv => TypeOK
  <2> SUFFICES ASSUME StackInv PROVE TypeOK OBVIOUS
  <2>1. stack \in Seq(Frame) /\ nextInvocation \in Nat /\ DOMAIN stack = 1 .. Len(stack)
    BY DEF StackInv
  <2>2. ASSUME NEW k \in 1 .. Len(stack), NEW p \in stack[k].perms, p.loan # NoLoan
        PROVE  p.token \in stack[k].invocation * MaxTokens ..
                  stack[k].invocation * MaxTokens + stack[k].next - 1
    <3>1. p \in Holders(k) /\ Accounts(stack[k], Holders(k)) BY DEF StackInv, Holders
    <3>2. Carries(stack[k], p) BY <3>1 DEF Accounts
    <3> QED BY <3>2, <2>2 DEF Carries
  <2>3. \A k \in 1 .. Len(stack) : stack[k].invocation < nextInvocation BY DEF StackInv
  <2> QED BY <2>1, <2>2, <2>3 DEF TypeOK
<1> QED BY <1>1, StackInvHolds, PTL

\* Every loan table on the stack is sound, although the import of parameters and
\* the reborrow at a return look for no conflict.
THEOREM FramesSoundHolds == Spec => []FramesSound
<1>1. StackInv => FramesSound
  <2> SUFFICES ASSUME StackInv, NEW k \in DOMAIN stack
               PROVE  /\ Held(stack[k].loans) /\ Nested(stack[k].loans)
                      /\ SuspendedWhileLent(stack[k].loans) /\ Exclusive(stack[k].loans)
    BY DEF FramesSound
  <2>1. k \in 1 .. Len(stack) BY DEF StackInv
  <2>2. Accounts(stack[k], Holders(k)) BY <2>1 DEF StackInv
  <2> QED BY <2>2 DEF Accounts, TableInv
<1> QED BY <1>1, StackInvHolds, PTL

\* No authority is lost or doubled by calls and returns.
THEOREM AuthoritiesConservedHolds == Spec => []AuthoritiesConserved
<1>1. StackInv => AuthoritiesConserved
  <2> SUFFICES ASSUME StackInv, NEW k \in DOMAIN stack
               PROVE  /\ \A l \in LoanIds : stack[k].loans[l].authorities =
                            {p.token : p \in {q \in Holders(k) : q.loan = l}}
                      /\ \A p, q \in Holders(k) : p.loan # NoLoan /\ p.token = q.token => p = q
                      /\ k < Len(stack) => stack[k].perms \cap GivenBack(stack[k + 1]) = {}
    BY DEF AuthoritiesConserved
  <2>1. k \in 1 .. Len(stack) BY DEF StackInv
  <2>2. Accounts(stack[k], Holders(k)) BY <2>1 DEF StackInv
  <2>3. ASSUME k < Len(stack) PROVE stack[k].perms \cap GivenBack(stack[k + 1]) = {}
    <3>1. k \in 1 .. Len(stack) - 1 BY <2>1, <2>3 DEF StackInv
    <3> QED BY <3>1 DEF StackInv, Passed
  <2> QED BY <2>2, <2>3 DEF Accounts
<1> QED BY <1>1, StackInvHolds, PTL

\* What a callee may do with a loan rooted in parameter i, its caller may do with
\* the i-th argument.
LEMMA CallerCould ==
    ASSUME NEW f \in Frame, NEW H, Accounts(f, H), NEW g \in Frame, Accounts(g, g.perms),
           Passed(f, g), NEW i \in DOMAIN g.args, g.args[i] \in H,
           NEW p \in g.perms, p.loan # NoLoan, ParamLoans[i] \in Chain(g.loans, p.loan),
           NEW r \in Range, NEW access \in Access, CheckAccess(g.loans, p, r, access)
    PROVE  g.args[i].allocation = p.allocation /\ CheckAccess(f.loans, g.args[i], r, access)
<1>a. PICK a : a = g.args[i] OBVIOUS
<1>x. PICK x : x = ParamLoans[i] OBVIOUS
<1>1. f.loans \in Table /\ g.loans \in Table /\ TableInv(g.loans) /\ a \in Permission
  BY <1>a, FrameFields DEF Accounts
<1>2. a.loan \in LoanIds /\ f.loans[a.loan].activity = "Active"
  <2>1. a \in GivenBack(g) BY <1>a, GivenBackType
  <2> QED BY <2>1, <1>a DEF Passed
<1>3. p.loan \in LoanIds /\ p.loan \in LiveLoans(g.loans)
  BY CarriedIsHeld DEF LiveLoans
<1>4. /\ g.loans[p.loan].activity = "Active" /\ g.loans[p.loan].allocation = p.allocation
      /\ Contains(g.loans[p.loan].range, r) /\ KindAllows(g.loans[p.loan].kind, access)
  BY <1>3 DEF CheckAccess, AuthorityAccess
<1>5. /\ x \in LiveLoans(g.loans) /\ g.loans[x].allocation = g.loans[p.loan].allocation
      /\ Contains(g.loans[x].range, g.loans[p.loan].range)
  BY <1>1, <1>3, <1>x, ChainInside DEF TableInv
<1>6. /\ g.loans[x].kind = f.loans[a.loan].kind /\ g.loans[x].allocation = a.allocation
      /\ Contains(a.range, g.loans[x].range)
  BY <1>5, <1>a, <1>x DEF Passed, LiveLoans
<1>7. /\ a.token \in f.loans[a.loan].authorities /\ f.loans[a.loan].allocation = a.allocation
      /\ Contains(f.loans[a.loan].range, a.range)
  <2>1. a.loan # NoLoan BY <1>2, LoanTableAssumption
  <2>2. a \in H BY <1>a
  <2>3. Carries(f, a) BY <2>2 DEF Accounts
  <2>4. a.token \in f.loans[a.loan].authorities BY <2>1, <2>2, CarriedIsHeld
  <2> QED BY <2>1, <2>3, <2>4 DEF Carries
<1>8. Contains(f.loans[a.loan].range, r)
  <2>1. x \in LoanIds BY <1>5 DEF LiveLoans
  <2>2. /\ f.loans[a.loan].range \in Range /\ a.range \in Range
        /\ g.loans[x].range \in Range /\ g.loans[p.loan].range \in Range
    BY <2>1, <1>1, <1>2, <1>3 DEF Table, Loan, Permission
  <2>3. \A e \in Range : e.start \in Int /\ e.end \in Int
    BY LoanTableAssumption DEF Range, Offsets
  <2> QED BY <2>2, <2>3, <1>4, <1>5, <1>6, <1>7 DEF Contains
<1>9. KindAllows(f.loans[a.loan].kind, access)
  <2>1. CASE access = "Read" BY <2>1 DEF KindAllows
  <2>2. CASE access # "Read"
    <3>1. g.loans[p.loan].kind \in Kind BY <1>1, <1>3 DEF Table, Loan
    <3>2. g.loans[p.loan].kind = "Mutable" BY <2>2, <3>1, <1>4 DEF KindAllows, Kind
    <3>3. g.loans[x].kind = "Mutable" BY <3>2, <1>1, <1>3, <1>x, ChainMutable DEF TableInv
    <3> QED BY <3>2, <3>3, <1>4, <1>6
  <2> QED BY <2>1, <2>2
<1>10. CheckAccess(f.loans, a, r, access)
  BY <1>2, <1>7, <1>8, <1>9 DEF CheckAccess, AuthorityAccess
<1> QED BY <1>4, <1>5, <1>6, <1>10, <1>a

\* A callee is confined to what its arguments let its caller do.
THEOREM CalleeConfinedHolds == Spec => []CalleeConfined
<1>1. ASSUME StackInv, Len(stack) > 1,
             NEW p \in Top.perms, NEW b \in 0 .. Size - 1, NEW access \in Access,
             NEW r, r = [start |-> b, end |-> b + 1],
             p.loan # NoLoan, CheckAccess(Top.loans, p, r, access),
             NEW l \in LiveLoans(Caller.loans), Caller.loans[l].allocation = p.allocation,
             b \in BytesOf(Caller.loans[l].range)
      PROVE  \/ access = "Read" /\ Caller.loans[l].kind = "Shared"
             \/ \E i \in RootParam(Top, p) : l \in Chain(Caller.loans, Top.args[i].loan)
  <2>f. PICK f : f = Caller OBVIOUS
  <2>g. PICK g : g = Top OBVIOUS
  <2>H. PICK H : H = f.perms \cup GivenBack(g) OBVIOUS
  <2>1. f \in Frame /\ Accounts(f, H) /\ Passed(f, g) /\ Rooted(g)
    BY <1>1, <2>f, <2>g, <2>H, CallerFrame
  <2>2. g \in Frame /\ Accounts(g, g.perms) BY <1>1, <2>g, TopFrame
  <2>3. p \in g.perms /\ CheckAccess(g.loans, p, r, access) BY <1>1, <2>g
  <2>4. p.loan \in LiveLoans(g.loans) BY <1>1, <2>2, <2>3, CarriedIsHeld DEF LiveLoans
  <2>5. PICK i \in DOMAIN g.args : ParamLoans[i] \in Chain(g.loans, p.loan)
    BY <2>1, <2>4 DEF Rooted
  <2>6. g.args[i] \in H BY <2>2, <2>H, GivenBackType
  <2>7. r \in Range BY <1>1, LoanTableAssumption DEF Range, Offsets
  <2>8. g.args[i].allocation = p.allocation /\ CheckAccess(f.loans, g.args[i], r, access)
    BY <1>1, <2>1, <2>2, <2>3, <2>5, <2>6, <2>7, CallerCould
  <2>9. f.loans \in Table /\ TableInv(f.loans) BY <2>1, FrameFields DEF Accounts
  <2>10. l \in LiveLoans(f.loans) /\ f.loans[l].allocation = g.args[i].allocation
    BY <1>1, <2>f, <2>8
  <2>11. Overlap(r, f.loans[l].range)
    <3>1. f.loans[l].range \in Range BY <2>9, <2>10 DEF LiveLoans, Table, Loan
    <3>2. f.loans[l].range.start \in Int /\ f.loans[l].range.end \in Int
      BY <3>1, LoanTableAssumption DEF Range, Offsets
    <3>3. f.loans[l].range.start <= b /\ b < f.loans[l].range.end BY <1>1, <2>f DEF BytesOf
    <3>4. r.start = b /\ r.end = b + 1 BY <1>1
    <3> QED BY <3>2, <3>3, <3>4 DEF Overlap
  <2>12. \/ access = "Read" /\ f.loans[l].kind = "Shared"
         \/ l \in Chain(f.loans, g.args[i].loan)
    BY <2>7, <2>8, <2>9, <2>10, <2>11, AccessIsolation
  <2>13. i \in RootParam(g, p) BY <2>5 DEF RootParam
  <2> QED BY <2>12, <2>13, <2>f, <2>g
<1>2. StackInv => CalleeConfined BY <1>1 DEF CalleeConfined
<1> QED BY <1>2, StackInvHolds, PTL

\* The returned reference comes from a parameter that the result relation names.
LEMMA ReturnedFrom ==
    ASSUME NEW g \in Frame, Accounts(g, g.perms), Rooted(g), NEW v \in g.perms,
           NEW slots \in [SlotParams(g) -> g.perms], \A j \in DOMAIN slots : slots[j] # v,
           ExportAllowed(g, slots, {v}), DOMAIN g.args \subseteq DOMAIN ParamLoans
    PROVE  \E i \in g.result.params : i \in RootParam(g, v)
<1>0. v.loan # NoLoan /\ v.loan \in LoanIds /\ v.token \in g.loans[v.loan].authorities
  BY CarriedIsHeld DEF Rooted
<1>1. PICK i \in DOMAIN g.args :
         \/ v.loan = ParamLoans[i] /\ v.token \in Exported(g, slots, {v}, i)
         \/ v.loan \in Selected(g, {v}, i)
  BY DEF ExportAllowed
<1>2. CASE v.loan = ParamLoans[i] /\ v.token \in Exported(g, slots, {v}, i)
  <2>1. CASE v.token \in {slots[j].token : j \in {i} \cap DOMAIN slots}
    <3>1. i \in DOMAIN slots /\ v.token = slots[i].token BY <2>1
    <3>2. slots[i] \in g.perms /\ slots[i] # v BY <3>1
    <3> QED BY <3>1, <3>2, <1>0 DEF Accounts
  <2>2. CASE v.token \in {w.token : w \in {x \in {v} : i \in g.result.params
                                                         /\ x.loan = ParamLoans[i]}}
    <3>1. i \in g.result.params BY <2>2
    <3>2. ParamLoans[i] \in Chain(g.loans, v.loan) BY <1>0, <1>2, ChainSelf
    <3> QED BY <3>1, <3>2 DEF RootParam
  <2> QED BY <2>1, <2>2, <1>2 DEF Exported
<1>3. CASE v.loan \in Selected(g, {v}, i)
  <2>1. PICK w \in {v} : i \in g.result.params /\ g.loans[w.loan].parent = ParamLoans[i]
    BY <1>3 DEF Selected
  <2>2. v.loan \in Chain(g.loans, v.loan) /\ ParentClosed(g.loans, Chain(g.loans, v.loan))
    BY <1>0, ChainSelf, ChainClosed
  <2>3. g.loans[v.loan].parent \in LoanIds => ParamLoans[i] \in Chain(g.loans, v.loan)
    BY <2>1, <2>2 DEF ParentClosed
  <2>4. i \in DOMAIN ParamLoans /\ ParamLoans[i] \in LoanIds BY CallsAssumption
  <2>5. ParamLoans[i] \in Chain(g.loans, v.loan) BY <2>1, <2>3, <2>4
  <2> QED BY <2>1, <2>5 DEF RootParam
<1> QED BY <1>1, <1>2, <1>3

\* The caller's side accepts what the callee's side lets through.
LEMMA ParentIsReady ==
    ASSUME NEW f \in Frame, NEW H, Accounts(f, H), NEW g \in Frame, Accounts(g, g.perms),
           Passed(f, g), NEW i \in DOMAIN g.args, g.args[i] \in H,
           NEW v \in g.perms, v.loan # NoLoan, ParamLoans[i] \in Chain(g.loans, v.loan)
    PROVE  ParentReady(f, g.args[i], v)
<1>a. PICK a : a = g.args[i] OBVIOUS
<1>x. PICK x : x = ParamLoans[i] OBVIOUS
<1>1. f.loans \in Table /\ g.loans \in Table /\ TableInv(g.loans) /\ a \in Permission
      /\ v \in Permission
  BY <1>a, FrameFields DEF Accounts
<1>2. a.loan \in LoanIds /\ f.loans[a.loan].activity = "Active"
  <2>1. a \in GivenBack(g) BY <1>a, GivenBackType
  <2> QED BY <2>1, <1>a DEF Passed
<1>3. v.loan \in LoanIds /\ v.loan \in LiveLoans(g.loans)
  BY CarriedIsHeld DEF LiveLoans
<1>4. /\ v.allocation = g.loans[v.loan].allocation /\ Contains(g.loans[v.loan].range, v.range)
      /\ ~v.free
  <2>1. Carries(g, v) BY DEF Accounts
  <2> QED BY <2>1 DEF Carries
<1>5. /\ x \in LiveLoans(g.loans) /\ g.loans[x].allocation = g.loans[v.loan].allocation
      /\ Contains(g.loans[x].range, g.loans[v.loan].range)
  BY <1>1, <1>3, <1>x, ChainInside DEF TableInv
<1>6. g.loans[x].allocation = a.allocation /\ Contains(a.range, g.loans[x].range)
  BY <1>5, <1>a, <1>x DEF Passed, LiveLoans
<1>7. /\ a.token \in f.loans[a.loan].authorities /\ f.loans[a.loan].allocation = a.allocation
      /\ Contains(f.loans[a.loan].range, a.range)
  <2>1. a.loan # NoLoan BY <1>2, LoanTableAssumption
  <2>2. a \in H BY <1>a
  <2>3. Carries(f, a) BY <2>2 DEF Accounts
  <2>4. a.token \in f.loans[a.loan].authorities BY <2>1, <2>2, CarriedIsHeld
  <2> QED BY <2>1, <2>3, <2>4 DEF Carries
<1>8. Contains(f.loans[a.loan].range, v.range)
  <2>1. x \in LoanIds BY <1>5 DEF LiveLoans
  <2>2. /\ f.loans[a.loan].range \in Range /\ a.range \in Range /\ v.range \in Range
        /\ g.loans[x].range \in Range /\ g.loans[v.loan].range \in Range
    BY <2>1, <1>1, <1>2, <1>3 DEF Table, Loan, Permission
  <2>3. \A e \in Range : e.start \in Int /\ e.end \in Int
    BY LoanTableAssumption DEF Range, Offsets
  <2> QED BY <2>2, <2>3, <1>4, <1>5, <1>6, <1>7 DEF Contains
<1>9. v.allocation = f.loans[a.loan].allocation BY <1>4, <1>5, <1>6, <1>7
<1>10. ParentReady(f, a, v) BY <1>2, <1>4, <1>7, <1>8, <1>9, Zenon DEF ParentReady
<1> QED BY <1>10, <1>a

\* A return that the callee's side accepts is accepted by the caller, at a
\* parameter that the result relation names.
THEOREM ReturnAcceptedHolds == Spec => []ReturnAccepted
<1>1. ASSUME StackInv, Len(stack) > 1,
             NEW slots \in [SlotParams(Top) -> Top.perms], NEW v \in Top.perms,
             Leaves(slots, {v})
      PROVE  \E i \in Top.result.params :
                i \in RootParam(Top, v) /\ ParentReady(Caller, Top.args[i], v)
  <2>f. PICK f : f = Caller OBVIOUS
  <2>g. PICK g : g = Top OBVIOUS
  <2>H. PICK H : H = f.perms \cup GivenBack(g) OBVIOUS
  <2>1. f \in Frame /\ Accounts(f, H) /\ Passed(f, g) /\ Rooted(g)
    BY <1>1, <2>f, <2>g, <2>H, CallerFrame
  <2>2. g \in Frame /\ Accounts(g, g.perms) BY <1>1, <2>g, TopFrame
  <2>3. v \in g.perms /\ slots \in [SlotParams(g) -> g.perms] BY <1>1, <2>g
  <2>4. ExportAllowed(g, slots, {v}) /\ \A j \in DOMAIN slots : slots[j] # v
    BY <1>1, <2>g DEF Leaves
  <2>5. DOMAIN g.args \subseteq DOMAIN ParamLoans BY <2>1 DEF Passed
  <2>6. PICK i \in g.result.params : i \in RootParam(g, v)
    BY <2>1, <2>2, <2>3, <2>4, <2>5, ReturnedFrom
  <2>7. i \in DOMAIN g.args /\ ParamLoans[i] \in Chain(g.loans, v.loan) BY <2>6 DEF RootParam
  <2>8. g.args[i] \in H BY <2>2, <2>7, <2>H, GivenBackType
  <2>9. v.loan # NoLoan BY <2>1, <2>3 DEF Rooted
  <2>10. ParentReady(f, g.args[i], v)
    BY <2>1, <2>2, <2>3, <2>7, <2>8, <2>9, ParentIsReady
  <2> QED BY <2>6, <2>10, <2>f, <2>g
<1>2. StackInv => ReturnAccepted BY <1>1 DEF ReturnAccepted
<1> QED BY <1>2, StackInvHolds, PTL

=============================================================================
