---------------------------- MODULE MC_Extractor ----------------------------
(* findall on every manifest of one or two words of a small alphabet.      *)
EXTENDS Extractor

(* The words a manifest of the model is built from: a source and a header  *)
(* under src/, a file in a subdirectory (where "/" is in the class), a C++ *)
(* source (where "+" gives back to ".c"), a path of another tree that has  *)
(* its own src/, and a file name with a character outside the class.       *)
Words == {
    Src \o <<"a", ".", "c">>,                       \* src/a.c
    Src \o <<"a", ".", "h">>,                       \* src/a.h
    Src \o <<"b", "/", "a", ".", "c">>,             \* src/b/a.c
    Src \o <<"a", ".", "c", "p", "p">>,             \* src/a.cpp
    <<"l", "i", "b", "/">> \o Src \o <<"a", ".", "c">>, \* lib/src/a.c
    Src \o <<"a", "-", "b", ".", "c">> }            \* src/a-b.c

(* One word, or two separated by the blank of a CMake command.             *)
MCTexts == Words \cup {w[1] \o <<" ">> \o w[2] : w \in Words \X Words}
====
