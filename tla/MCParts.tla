------------------------------ MODULE MCParts ------------------------------
(* Small values for Parts: a pool of two blocks, and for the parser a written *)
(* file with one of two remarks before one of its words or none.              *)
EXTENDS Parts

CONSTANTS b1, b2, b3

MCNextBlock == (b1 :> b2 @@ b2 :> "null")

MCAreaNames == {<<"n">>}
MCKeys == {<<"k">>, <<"/">>}
MCStrings == {<<"v">>, <<"v", " ", "w">>}
MCNumbers == {<<"0">>, <<"1">>}

MCWords == << <<":">>, <<"n">>, <<"{">>, <<"k">>, <<":">>, <<"\"", "v", "\"">>,
              <<"j">>, <<":">>, <<"1">>, <<"}">> >>
MCRemarks == {<<>>, <<"/", "/", "x", " ", "\n">>,
              <<"/", "*", "\n", "x", "*", " ", "}", " ", "*", "/">>}
MCText(i, remark) ==
  FlattenSeq([j \in DOMAIN MCWords |-> (IF j = i THEN remark ELSE <<>>) \o MCWords[j] \o <<" ">>])
  \o (IF i = 0 THEN remark ELSE <<>>)
MCHandWritten == {MCText(i, r) : i \in 0 .. Len(MCWords), r \in MCRemarks}
MCMeaning == << [name |-> <<"n">>, str |-> (<<"k">> :> <<"v">>), int |-> (<<"j">> :> <<"1">>)] >>
============================================================================
