-------------------------------- MODULE Kmp ---------------------------------
(***************************************************************************)
(* prefix_function and compute_automaton of kmp.h, one turn of their outer *)
(* loops per step.  A text is a sequence of letters, with the "#" that     *)
(* compute_automaton appends.                                              *)
(***************************************************************************)
EXTENDS Integers, Sequences

CONSTANTS Letters, MaxLen

ASSUME KmpAssumption == MaxLen \in Nat

VARIABLES text, index, pi,  \* prefix_function: s, its loop index, the result
          aut               \* the rows of the automaton so far

kmpVars == <<text, index, pi, aut>>

\* Positions start at 1 here; pi holds lengths, as in the code.
KmpInit ==
    /\ \E len \in 0 .. MaxLen : \E t \in [1 .. len -> Letters] : text = Append(t, "#")
    /\ index = 2 /\ pi = [k \in 1 .. Len(text) |-> 0] /\ aut = <<>>

\* A turn of while (j > 0 && s[i] != s[j]) j = pi[j - 1].
FallTurn(j, c) == IF j > 0 /\ c # text[j + 1] THEN pi[j] ELSE j

\* Mutant: the shorter borders are not tried.
FallBackOnce(j, c) == IF j > 0 /\ c # text[j + 1] THEN 0 ELSE j

\* The loop; j becomes smaller with every turn.
FallBack(j, c) ==
    LET at[n \in Nat] == IF n = 0 THEN j ELSE FallTurn(at[n - 1], c) IN at[j]

PrefixStep ==
    LET j == FallBack(pi[index - 1], text[index])
    IN  /\ index <= Len(text)
        /\ pi' = [pi EXCEPT ![index] = IF text[index] = text[j + 1] THEN j + 1 ELSE j]
        /\ index' = index + 1
        /\ UNCHANGED <<text, aut>>

\* Row k of the automaton, after rows 0 .. k - 1.
Row(a, k) ==
    [c \in Letters |-> IF k > 0 /\ c # text[k + 1] THEN a[pi[k] + 1][c]
                       ELSE k + IF c = text[k + 1] THEN 1 ELSE 0]

AutomatonRow ==
    /\ index > Len(text) /\ Len(aut) < Len(text)
    /\ aut' = Append(aut, Row(aut, Len(aut)))
    /\ UNCHANGED <<text, index, pi>>

KmpNext == PrefixStep \/ AutomatonRow

KmpSpec == KmpInit /\ [][KmpNext]_kmpVars
-----------------------------------------------------------------------------
Longest(lengths) == CHOOSE b \in lengths : \A d \in lengths : b >= d

\* The length of the longest proper border of the first k letters of t.
Border(t, k) == Longest({b \in 0 .. k - 1 : SubSeq(t, 1, b) = SubSeq(t, k - b + 1, k)})

\* pi[k] is the longest proper prefix of s[0..k] that is also its suffix, for
\* every k computed so far.
PrefixFunctionIsBorder == \A k \in 1 .. index - 1 : pi[k] = Border(text, k)

\* The first k - 1 letters, followed by c.
Read(k, c) == Append(SubSeq(text, 1, k - 1), c)

\* Row k, letter c of the automaton is the longest prefix of s that ends the
\* letters read so far.
AutomatonFindsLongestPrefix ==
    \A k \in DOMAIN aut, c \in Letters :
        aut[k][c] = Longest({b \in 0 .. k : SubSeq(text, 1, b) = SubSeq(Read(k, c), k - b + 1, k)})

\* prefix_function is the longest proper border of every prefix, and
\* compute_automaton goes from every state to the longest prefix that fits.
MatchesAreRight == PrefixFunctionIsBorder /\ AutomatonFindsLongestPrefix
=============================================================================
