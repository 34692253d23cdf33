------------------------------- MODULE Parser -------------------------------
(***************************************************************************)
(* CParser of src/cpp-project/2DGame/Lib/Parser.cpp: areas of named        *)
(* strings and numbers, kept in a text file.  A text is a sequence of      *)
(* characters of which " " stands for every blank but the end of a line    *)
(* and a word that is only compared, printed and read back for one         *)
(* character.  The widths of the buffers are left out.                     *)
(***************************************************************************)
EXTENDS Naturals, SequencesExt

CONSTANTS AreaNames, Keys, Strings,   \* bound: arguments of SetValue, GetValue
          Numbers,                    \* words that are numbers, "0" among them
          HandWritten,                \* bound: texts a file may hold at first ...
          Meaning,                    \* ... and the areas they stand for
          MaxParserCalls              \* bound: calls

VARIABLES areas,       \* m_AreaList
          filePointer, \* m_iFilePointer, from 1
          file,        \* the text of the file
          meant,       \* the areas the file stands for
          readOk,      \* what the last ReadBuffer returned
          parserCalls

parserVars == <<areas, filePointer, file, meant, readOk, parserCalls>>

Blank == {" ", "\n"}
Empty == [x \in {} |-> x]
NewArea(name) == [name |-> name, str |-> Empty, int |-> Empty]

ParserInit == /\ areas = <<>> /\ filePointer = 1
              /\ file \in HandWritten /\ meant = Meaning
              /\ readOk = FALSE /\ parserCalls = 0
-----------------------------------------------------------------------------
With(f, x, v) == [y \in DOMAIN f \cup {x} |-> IF y = x THEN v ELSE f[y]]
_wtoi(word) == IF word \in Numbers THEN word ELSE <<"0">>

Refused(word) == word[1] = "\"" /\ Last(word) # "\""

(* Insert of a word it does not refuse. *)
Insert(area, key, word) ==
  IF word[1] = "\""
    THEN [area EXCEPT !.str = With(@, key, SubSeq(word, 2, Len(word) - 1))]
    ELSE [area EXCEPT !.int = With(@, key, _wtoi(word))]

Named(name) == {i \in DOMAIN areas : areas[i].name = name}
FirstOf(S) == CHOOSE i \in S : \A j \in S : i <= j

SetValue(name, key, word) ==
  /\ areas' = IF Named(name) = {} THEN Append(areas, Insert(NewArea(name), key, word))
              ELSE [areas EXCEPT ![FirstOf(Named(name))] = Insert(@, key, word)]
  /\ UNCHANGED <<filePointer, file, meant, readOk>>

(* Looking up a key with operator[] adds it. *)
Looked(f, key, default) == IF f = Empty \/ key \in DOMAIN f THEN f ELSE With(f, key, default)

GetString(name, key) ==
  /\ areas' = IF Named(name) = {} THEN areas
              ELSE [areas EXCEPT ![FirstOf(Named(name))].str = Looked(@, key, <<>>)]
  /\ UNCHANGED <<filePointer, file, meant, readOk>>

(* Areas of the name without any number are passed over. *)
GetInt(name, key) ==
  LET S == {i \in Named(name) : areas[i].int # Empty}
  IN /\ areas' = IF S = {} THEN areas
                 ELSE [areas EXCEPT ![FirstOf(S)].int = Looked(@, key, <<"0">>)]
     /\ UNCHANGED <<filePointer, file, meant, readOk>>
-----------------------------------------------------------------------------
(* An entry per line; the order the maps are iterated in does not matter.     *)
Lines(f, quote) ==
  FlattenSeq([i \in 1 .. Len(SetToSeq(DOMAIN f)) |->
    LET key == SetToSeq(DOMAIN f)[i]
    IN <<" ">> \o key \o <<" ", ":", " ">> \o quote \o f[key] \o quote \o <<"\n">>])

TextOf(area) == <<":", " ">> \o area.name \o <<"\n", "{", "\n">>
                \o Lines(area.str, <<"\"">>) \o Lines(area.int, <<>>) \o <<"}", "\n">>

SaveDataToFile ==
  /\ file' = FlattenSeq([i \in DOMAIN areas |-> TextOf(areas[i])])
  /\ meant' = areas
  /\ UNCHANGED <<areas, filePointer, readOk>>

(* Where SkipBlank stops from p on, past the end if it returns false: behind  *)
(* blanks and remarks.  It takes the character after a * of a remark with it. *)
SkipBlank(text, p) ==
  LET At(q, c) == q \in DOMAIN text /\ text[q] = c
      skip[q \in Nat, ignore \in {"NO", "LINE", "AREA"}] ==
        IF q > Len(text) THEN Len(text) + 1
        ELSE CASE ignore = "LINE" -> skip[q + 1, IF text[q] = "\n" THEN "NO" ELSE ignore]
               [] ignore = "AREA" ->
                    IF text[q] = "*" THEN skip[q + 2, IF At(q + 1, "/") THEN "NO" ELSE ignore]
                    ELSE skip[q + 1, ignore]
               [] ignore = "NO" /\ text[q] = "/" ->
                    skip[q + 2, IF At(q + 1, "/") THEN "LINE" ELSE IF At(q + 1, "*") THEN "AREA" ELSE "NO"]
               [] ignore = "NO" /\ text[q] \in Blank -> skip[q + 1, ignore]
               [] OTHER -> q
  IN skip[p, "NO"]

(* The words from p on, each with the place behind it: ReadWord is called     *)
(* behind a SkipBlank only.                                                   *)
ReadWords(text, p) ==
  LET End(q) == FirstOf({r \in q .. Len(text) + 1 : r \in DOMAIN text => text[r] \in Blank})
      from[q \in Nat] ==
        LET s == SkipBlank(text, q)
        IN IF s > Len(text) THEN <<>>
           ELSE <<[word |-> SubSeq(text, s, End(s) - 1), end |-> End(s)]>> \o from[End(s)]
  IN from[p]

(* ReadArea and SetArea, word by word: `want' is what they read next.         *)
NextWord(st, w) ==
  LET word == w.word
      Error == [st EXCEPT !.want = "ERROR", !.end = w.end]
      cur == Len(st.areas)
  IN CASE st.want = "ERROR" -> st
       [] st.want = "AREA"  -> IF word = <<":">> THEN [st EXCEPT !.want = "NAME"] ELSE Error
       [] st.want = "NAME"  -> [st EXCEPT !.want = "{", !.areas = Append(@, NewArea(word))]
       [] st.want = "{"     -> IF word = <<"{">> THEN [st EXCEPT !.want = "KEY"] ELSE Error
       [] st.want = "KEY"   -> IF word = <<"}">> THEN [st EXCEPT !.want = "AREA"]
                               ELSE [st EXCEPT !.want = ":", !.key = word]
       [] st.want = ":"     -> IF word = <<":">> THEN [st EXCEPT !.want = "VALUE"] ELSE Error
       [] st.want = "VALUE" -> IF word = <<"}">> \/ Refused(word) THEN Error
                               ELSE [st EXCEPT !.want = "KEY", !.areas[cur] = Insert(@, st.key, word)]

(* ReadBuffer reads on from the file pointer, which only Reset sets back, and *)
(* adds to the areas there are.                                               *)
ReadBuffer ==
  LET words == ReadWords(file, filePointer)
      st == FoldLeft(NextWord, [want |-> "AREA", areas |-> areas, key |-> <<>>, end |-> 0], words)
  IN /\ areas' = st.areas
     /\ filePointer' = IF st.want = "ERROR" THEN st.end
                       ELSE IF filePointer > Len(file) THEN filePointer ELSE Len(file) + 1
     /\ readOk' = (st.want = "AREA" /\ words # <<>>)
     /\ UNCHANGED <<file, meant>>

(* Faulty variant: the file pointer is not set back. *)
ResetKeepsPointer == areas' = <<>> /\ UNCHANGED <<filePointer, file, meant, readOk>>

Reset == /\ areas' = <<>> /\ filePointer' = 1
         /\ UNCHANGED <<file, meant, readOk>>

ParserNext ==
  /\ parserCalls < MaxParserCalls /\ parserCalls' = parserCalls + 1
  /\ \/ \E name \in AreaNames, key \in Keys :
          \/ \E s \in Strings : SetValue(name, key, <<"\"">> \o s \o <<"\"">>)
          \/ \E n \in Numbers : SetValue(name, key, n)
          \/ GetString(name, key) \/ GetInt(name, key)
     \/ SaveDataToFile \/ ReadBuffer \/ Reset

ParserSpec == ParserInit /\ [][ParserNext]_parserVars
-----------------------------------------------------------------------------
(* No name, key or string has a blank in it, or is taken for a remark or for  *)
(* the end of an area.                                                        *)
Plain(as) ==
  \A i \in DOMAIN as :
    LET Word(w) == w # <<>> /\ w[1] # "/" /\ Range(w) \cap Blank = {}
        a == as[i]
    IN /\ Word(a.name)
       /\ \A k \in DOMAIN a.str \cup DOMAIN a.int : Word(k) /\ k # <<"}">>
       /\ \A k \in DOMAIN a.str : Range(a.str[k]) \cap Blank = {}

(* A file that SaveDataToFile wrote from plain words, or that someone wrote   *)
(* with remarks between the words, is read back by a parser without areas as  *)
(* the areas it stands for, lookups and failed reads before it or not         *)
(* (Parser.cpp:141-365, 367-473, 560-594).                                    *)
ReadsBack ==
  [][ReadBuffer /\ areas = <<>> /\ meant # <<>> /\ Plain(meant)
       => readOk' /\ areas' = meant]_parserVars
=============================================================================
