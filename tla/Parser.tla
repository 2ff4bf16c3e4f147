------------------------------- MODULE Parser -------------------------------
(***************************************************************************)
(* u6a_parse: the tokens of the source, one per step, become the pre-order *)
(* array of the syntax tree.  Node n is the code's ast[n - 1], so token t  *)
(* goes to node t + 2, after the application of e that guards the program. *)
(***************************************************************************)
EXTENDS Defs, FiniteSets

VARIABLES
  tokens,   (* token_arr                                                   *)
  idx,      (* token_idx + 1                                               *)
  ast,      (* the nodes: a token and the number of the right sibling of a *)
            (* left child, 0 when unset                                    *)
  pstack,   (* applications without their right child, innermost last      *)
  status,   (* "idle" before the call, "parsing", "ok", "bad_syntax" or    *)
            (* "bad_alloc"                                                 *)
  need      (* history: expressions that the tokens read so far ask for    *)

vars == <<tokens, idx, ast, pstack, status, need>>

Node(t, s) == [tok |-> t, sibling |-> s]

(* calloc zeroes the nodes; the root applies e to the program.             *)
NewAst(n) ==
  [i \in 1..(n + 2) |-> CASE i = 1 -> Node(Tok("app"), 0)
                          [] i = 2 -> Node(Tok("e"), 3)
                          [] OTHER -> Node(NoTok, 0)]

Init ==
  /\ tokens = <<>> /\ ast = <<>> /\ pstack = <<>>
  /\ idx = 1
  /\ status = "idle"
  /\ need = 1

(* u6a_parse is called: calloc and malloc, one of which may fail.          *)
Start(tk) ==
  /\ status = "idle"
  /\ tokens' = tk
  /\ \/ /\ status' = "parsing"
        /\ ast' = NewAst(Len(tk))
        /\ pstack' = <<1>>
     \/ /\ status' = "bad_alloc"
        /\ UNCHANGED <<ast, pstack>>
  /\ UNCHANGED <<idx, need>>

(* A token after the end of the program.                                   *)
Trailing ==
  /\ status = "parsing" /\ idx <= Len(tokens)
  /\ pstack = <<>>
  /\ status' = "bad_syntax"
  /\ UNCHANGED <<tokens, idx, ast, pstack, need>>

(* The node that gets the next token, the tree with the sibling link set,  *)
(* and the applications that wait for a right child after it.              *)
Top        == pstack[Len(pstack)]
LeftIsFree == ast[Top + 1].tok = NoTok
ChildEarly == IF LeftIsFree THEN Top + 1 ELSE idx + 1
Child      == IF LeftIsFree THEN Top + 1 ELSE idx + 2
Linked     == IF LeftIsFree THEN ast
              ELSE [ast EXCEPT ![Top + 1].sibling = Child]
WaitingAll == pstack
Waiting    == IF LeftIsFree THEN pstack ELSE SubSeq(pstack, 1, Len(pstack) - 1)

ReadTokenPush ==
  /\ status = "parsing" /\ idx <= Len(tokens)
  /\ pstack # <<>>
  /\ ast' = [Linked EXCEPT ![Child].tok = tokens[idx]]
  /\ pstack' = Append(Waiting, Child)
  /\ need' = IF IsApp(tokens[idx]) THEN need + 1 ELSE need - 1
  /\ idx' = idx + 1
  /\ UNCHANGED <<tokens, status>>

ReadToken ==
  /\ status = "parsing" /\ idx <= Len(tokens)
  /\ pstack # <<>>
  /\ ast' = [Linked EXCEPT ![Child].tok = tokens[idx]]
  /\ pstack' = IF IsApp(tokens[idx]) THEN Append(Waiting, Child) ELSE Waiting
  /\ need' = IF IsApp(tokens[idx]) THEN need + 1 ELSE need - 1
  /\ idx' = idx + 1
  /\ UNCHANGED <<tokens, status>>

FinishEarly ==
  /\ status = "parsing" /\ idx > Len(tokens)
  /\ status' = "ok"
  /\ UNCHANGED <<tokens, idx, ast, pstack, need>>

Finish ==
  /\ status = "parsing" /\ idx > Len(tokens)
  /\ status' = IF pstack = <<>> THEN "ok" ELSE "bad_syntax"
  /\ UNCHANGED <<tokens, idx, ast, pstack, need>>

ParseStep == Trailing \/ ReadToken \/ Finish

Next == (\E tk \in Seq(Token) : Start(tk)) \/ ParseStep

Spec == Init /\ [][Next]_vars

-----------------------------------------------------------------------------

(* The applications on pstack lie in the part of the array that is filled, *)
(* outer before inner, so that the left child of the innermost is the next *)
(* free node or filled, and never past the end of the array; there is room *)
(* for them in the token_len + 1 slots of pstack.                          *)
PstackOK ==
  /\ \A i \in DOMAIN pstack : /\ pstack[i] <= idx + 1
                              /\ IsApp(ast[pstack[i]].tok)
  /\ \A i, j \in DOMAIN pstack : i < j => pstack[i] < pstack[j]
  /\ Len(pstack) <= Len(tokens) + 1

(* What is still missing: a right child for every application on pstack,   *)
(* and a left child too for one whose next node is empty.                  *)
Missing ==
  Len(pstack) + (IF pstack # <<>> /\ Top = idx + 1 THEN 1 ELSE 0)

NeedsMissing == status = "parsing" => need = Missing /\ need >= 0

(* A program is accepted exactly when it asks for nothing more at its end  *)
(* and asked for something at every token before.                          *)
NeedAfter(tk) ==
  [n \in 0..Len(tk) |-> 1 + 2 * Cardinality({i \in 1..n : IsApp(tk[i])}) - n]

IsProgram(tk) == /\ NeedAfter(tk)[Len(tk)] = 0
                 /\ \A n \in 0..(Len(tk) - 1) : NeedAfter(tk)[n] > 0

AcceptsPrograms == /\ status = "ok" => IsProgram(tokens)
                   /\ status = "bad_syntax" => ~IsProgram(tokens)

(* The expressions that are missing behind node n of the one that begins   *)
(* at node m, and its end: the first node at which it asks for nothing.    *)
Apps(a, m, n)  == {i \in m..n : IsApp(a[i].tok)}
Lacks(a, m, n) == 2 * Cardinality(Apps(a, m, n)) + 1 - (n - m + 1)
Ends(a, m, n)  == Lacks(a, m, n) = 0 /\ \A k \in m..(n - 1) : Lacks(a, m, k) # 0
EndOf(m) == CHOOSE n \in m..(Len(tokens) + 2) : Ends(ast, m, n)

(* The tree of an accepted program: the right child of every application   *)
(* begins where its left child ends, and the nodes are the tokens.         *)
TreeIsRight ==
  status = "ok" =>
    /\ \A i \in DOMAIN tokens : ast[i + 2].tok = tokens[i]
    /\ \A n \in DOMAIN ast :
         IsApp(ast[n].tok) => ast[n + 1].sibling = EndOf(n + 1) + 1

-----------------------------------------------------------------------------
(* Why these hold: what is true at every token.                            *)

Parsed == status \in {"parsing", "ok", "bad_syntax"}

ParserType ==
  /\ tokens \in Seq(Token)
  /\ idx \in 1..(Len(tokens) + 1)
  /\ status \in {"idle", "parsing", "ok", "bad_syntax", "bad_alloc"}
  /\ pstack \in Seq(1..(Len(tokens) + 2))
  /\ IF Parsed THEN ast \in [1..(Len(tokens) + 2) ->
                               [tok : Token \cup {NoTok}, sibling : Nat]]
     ELSE pstack = <<>> /\ idx = 1 /\ need = 1 /\ ast = <<>>

(* The nodes are the tokens that were read, and the others are empty.      *)
Filled ==
  Parsed =>
    /\ ast[1].tok = Tok("app") /\ ast[2].tok = Tok("e")
    /\ \A i \in 1..(idx - 1) : ast[i + 2].tok = tokens[i]
    /\ \A n \in (idx + 2)..(Len(tokens) + 2) : ast[n].tok = NoTok

(* The left child of a waiting application is not complete, and lacks what *)
(* the ones after it on pstack wait for.                                   *)
Waits ==
  /\ PstackOK /\ Len(pstack) <= idx
  /\ \A i \in DOMAIN pstack :
       /\ Lacks(ast, pstack[i] + 1, idx + 1) = Missing - i
       /\ \A k \in (pstack[i] + 1)..idx : Lacks(ast, pstack[i] + 1, k) > 0

(* An application that waits no longer has its right child where the left  *)
(* one ends.                                                               *)
Links ==
  Parsed =>
    \A n \in 1..(idx + 1) :
      IsApp(ast[n].tok) /\ (\A i \in DOMAIN pstack : pstack[i] # n) =>
        /\ ast[n + 1].sibling - 1 \in (n + 1)..(idx + 1)
        /\ Ends(ast, n + 1, ast[n + 1].sibling - 1)

Counted ==
  Parsed => /\ need = Missing /\ need = NeedAfter(tokens)[idx - 1]
            /\ \A n \in 0..(idx - 2) : NeedAfter(tokens)[n] > 0

(* The nodes so far are a tree that misses the right children of what is   *)
(* on pstack: every node but the first is the child of an application that *)
(* comes before it, and no node of two; and what begins in the left child  *)
(* of an application ends in it.                                           *)
Complete(n) == IsApp(ast[n].tok) /\ \A i \in DOMAIN pstack : pstack[i] # n

Shaped ==
  Parsed =>
    /\ \A n \in 1..(idx + 1) : Complete(n) => ast[n + 1].sibling \in (n + 2)..(idx + 1)
    /\ \A m \in 2..(idx + 1) : \E n \in 1..(m - 1) :
         IsApp(ast[n].tok) /\ (m = n + 1 \/ (Complete(n) /\ m = ast[n + 1].sibling))
    /\ \A n, k \in 1..(idx + 1) :
         Complete(n) /\ IsApp(ast[k].tok) /\ n # k =>
           /\ ast[n + 1].sibling # k + 1
           /\ Complete(k) => ast[n + 1].sibling # ast[k + 1].sibling
    /\ \A n, k \in 1..(idx + 1) :
         Complete(n) /\ IsApp(ast[k].tok) /\ k \in (n + 1)..(ast[n + 1].sibling - 1) =>
           Complete(k) /\ ast[k + 1].sibling < ast[n + 1].sibling

Judged ==
  /\ status = "ok" => pstack = <<>> /\ idx = Len(tokens) + 1
  /\ status = "bad_syntax" => (pstack = <<>>) = (idx <= Len(tokens))

ParserInv == ParserType /\ Filled /\ Waits /\ Links /\ Shaped /\ Counted /\ Judged

=============================================================================
