----------------------------- MODULE Extractor -----------------------------
(***************************************************************************)
(* The lexical scan of parse_cmake_sources, scripts/validate_build.py:     *)
(* re.compile(r'src/[a-zA-Z0-9_/]+\.[ch]').findall(content).               *)
(*                                                                         *)
(* The manifest text is a sequence of characters, one of the set Texts    *)
(* (MC_Extractor enumerates texts of one or two words over a small         *)
(* alphabet, each a path as a manifest writes it).  findall is modelled    *)
(* by what the regex engine does: at each position it tries the pattern,  *)
(* the "+" consuming greedily and giving characters back one at a time     *)
(* until "\.[ch]" follows; after a match the scan resumes behind it,       *)
(* otherwise at the next position.  One scan position is one step.  The    *)
(* engine's phases are given by what they return.  All of this is the     *)
(* semantics of re for the pattern at line 35; the property is about what  *)
(* the script does with the matches: it takes each one as a file the       *)
(* manifest references.                                                    *)
(***************************************************************************)
EXTENDS Naturals, Sequences

CONSTANT Texts     \* the manifest texts findall may be given

(* The character class [a-zA-Z0-9_/].                                      *)
ClassChars ==
    { "a", "b", "c", "d", "e", "f", "g", "h", "i", "j", "k", "l", "m",
      "n", "o", "p", "q", "r", "s", "t", "u", "v", "w", "x", "y", "z",
      "A", "B", "C", "D", "E", "F", "G", "H", "I", "J", "K", "L", "M",
      "N", "O", "P", "Q", "R", "S", "T", "U", "V", "W", "X", "Y", "Z",
      "0", "1", "2", "3", "4", "5", "6", "7", "8", "9", "_", "/" }

Src == <<"s", "r", "c", "/">>

-----------------------------------------------------------------------------
(* The regex engine, by what each of its phases returns.                  *)

(* The characters t[a..b] are all in class cc.                             *)
AllIn(t, a, b, cc) == \A z \in a..b : t[z] \in cc

(* "\.[ch]" follows a run of "+" that ends at b.                          *)
Tails(t, b) == b + 2 <= Len(t) /\ t[b + 1] = "." /\ t[b + 2] \in {"c", "h"}

(* The greedy "+" from x: the run of class characters ends just before the *)
(* first character outside the class, or at the end of the text.           *)
RunEnd(t, x) ==
    CHOOSE e \in x - 1 .. Len(t) :
        /\ AllIn(t, x, e, ClassChars)
        /\ e < Len(t) => t[e + 1] \notin ClassChars

(* Backtracking of "+" from the run ending at e: the engine gives back one *)
(* character at a time, down to one character after "src/", and stops at  *)
(* the first (so the longest) run that "\.[ch]" follows.  The end of the   *)
(* match, or 0 when none.                                                  *)
Backtrack(t, i, e) ==
    LET C == {b \in i + 4 .. e : Tails(t, b)} IN
    IF C = {} THEN 0 ELSE (CHOOSE b \in C : \A c \in C : c <= b) + 2

(* The end of the match found at position i, or 0 when none.               *)
MatchAt(t, i) ==
    IF i + 3 <= Len(t) /\ SubSeq(t, i, i + 3) = Src
      THEN Backtrack(t, i, RunEnd(t, i + 4))
      ELSE 0

VARIABLES
    text,   \* the content of CMakeLists.txt
    pos,    \* where the scan of findall is
    found   \* the matches so far, as <<start, end>> positions in text

vars == <<text, pos, found>>

TypeOK ==
    /\ text \in Texts
    /\ pos \in 1..Len(text) + 1
    /\ found \in Seq((1..Len(text)) \X (1..Len(text)))

Init ==
    /\ text \in Texts
    /\ pos = 1
    /\ found = <<>>

(* One position of findall: a match is added and the scan resumes behind  *)
(* it, or the scan moves one character on.                                 *)
ScanStep ==
    /\ pos <= Len(text)
    /\ LET e == MatchAt(text, pos) IN
         IF e = 0 THEN pos' = pos + 1 /\ UNCHANGED found
         ELSE /\ found' = Append(found, <<pos, e>>)
              /\ pos' = e + 1
    /\ UNCHANGED text

Next == ScanStep

Spec == Init /\ [][Next]_vars /\ WF_vars(Next)

-----------------------------------------------------------------------------
(* Properties.                                                             *)

(* The characters that end a path as a CMake command writes it: the blank *)
(* between arguments and the closing parenthesis.                          *)
Delimiters == {" ", ")"}

(* The data model of the spec (section 3): a ManifestReference is a path   *)
(* as written in the manifest, and parse_cmake_sources returns each match  *)
(* as one.  So every match ends where the written path ends: it is not the *)
(* front of a longer path such as src/a.cpp, which the check would then   *)
(* look for as src/a.c.  (A match may start inside a longer path, as in   *)
(* ${CMAKE_SOURCE_DIR}/src/a.c, which names the same file.)               *)
ExtractedAsWritten ==
    \A a \in DOMAIN found :
        found[a][2] = Len(text) \/ text[found[a][2] + 1] \in Delimiters

====
