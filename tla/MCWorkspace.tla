---------------------------- MODULE MCWorkspace -----------------------------
EXTENDS Workspace

MCHome == <<"w">>
MCAlias == <<"l">>
MCOutside == <<"out", "d">>
MCRepo == <<"w", "r">>
MCNames == {<<"x">>, <<"y">>}
MCPlaces == {<<>>, <<"w">>, <<"l">>, <<"out">>, <<"out", "d">>, <<"out", "d", "o">>, <<"out", "n">>, <<"w", "x">>,
             <<"w", "r">>, <<"w", "r", ".git">>, <<"w", "r", "x">>, <<"w", "r", "y">>}
D1 == <<"x">>
D2 == <<"y", "nl", "x", "nl">>
MCData == {<<>>, D1, D2}
Abs(segs) == [abs |-> TRUE, segs |-> segs]
MCRequests == {Rel(s) : s \in {<<>>, <<".">>, <<"x">>, <<"x", "x">>, <<"r">>, <<"r", "x">>,
                               <<"r", "..", "x">>, <<"..", "w", "x">>, <<"..", "out", "d", "o">>}}
              \cup {Abs(s) : s \in {<<"w", "r", "x">>, <<"l", "r", "x">>, <<"out", "n">>}}
Write(segs, data, mode, full) == [req |-> Rel(segs), data |-> data, mode |-> mode, full |-> full]
MCWrites == {Write(<<"r", "x">>, <<>>, "unset", FALSE),
             Write(<<"x">>, D2, "ro", TRUE)}
MCDeletes == {Rel(<<".">>), Rel(<<"r">>), Rel(<<"x">>), Rel(<<"r", "x">>)}
MCLinkPlace == <<"w", "x">>
MCTargets == {<<"out", "d", "o">>, <<"out", "n">>, <<"w", "r">>, <<"w", "r", "x">>}
MCAuth == [ssh |-> "nil", https |-> "token"]
MCCommitCalls == {<<>>, << <<"x">> >>, << <<"x">>, <<"y">> >>}
MCOrigin == [n \in MCNames |-> IF n = <<"x">> THEN D2 ELSE NoFile]
MCPeerTree == [n \in MCNames |-> IF n = <<"x">> THEN <<"x", "L">> ELSE <<"x", "0">>]
MCSkipped == {<<"w", "r", ".git">>, <<"w", "r", "y">>}

\* Texts of up to five lines, with and without a final newline.
Text(ls, end) == FoldLeft(LAMBDA d, l : (IF d = <<>> THEN d ELSE Append(d, "nl")) \o l, <<>>, ls) \o end
MCSamples == {Text(ls, end) : ls \in UNION {[1..n -> {<<"x">>, <<"y">>}] : n \in 1..5}, end \in {<<>>, <<"nl">>}}
             \cup {<<>>, <<"nl">>, <<"x", "0">>}
=============================================================================
