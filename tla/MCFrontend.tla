------------------------------ MODULE MCFrontend ------------------------------
(* Sources for the front end: every chain of operators, every short text over *)
(* the tokens of one syntactic matter, and declarations and statements that   *)
(* use each construct, alone and one after the other.                         *)
EXTENDS Frontend

InExpr(e)  == <<"fn", "f", "(", ")", "->", "T", "{", "return">> \o e \o <<";", "}">>
InBlock(e) == <<"fn", "f", "(", ")", "{">> \o e \o <<"}">>
UpTo(S, n) == UNION {[1..k -> S] : k \in 1..n}

Ops == {"||", "&&", "|", "^", "&", "==", "<", ">", "<<", "+", "-", "*"}
MCChains == {InExpr(<<"a", o, "b", p, "x", q, "a">>) : o, p, q \in Ops}

Texts == UpTo({"a", "(", ")", ",", "=>"}, 4) \cup UpTo({"a", "A", ".", "::", "(", ")", "1"}, 3)
         \cup UpTo({"A", "<", ">", ">>", "::", "{", "}"}, 3) \cup UpTo({"a", "?", ":", "=", "+=", "-"}, 4)
         \cup UpTo({"{", "}", "a", ";", "if"}, 3)
Exprs == { <<"a", "as", "Int64", "*", "1">>, <<"(", "Int64", ")", "-", "a">>, <<"@", "{", "1", "=>", "a", ",", "}">>, <<"A", "{", "a", ":", "1", ",", "b", ":", "x", "}">>,
           <<"new", "A", "<", "T", ">", "(", "1", ")">>, <<"super", ".", "f", "(", "a", ")">>, <<"spawn", "f", "(", "a", ")">>, <<"await", "a">>,
           <<"send", "a", "->", "1">>, <<"recv", "a">>, <<"is", "a", "->", "T">>, <<"cast", "a", "as", "T">>, <<"\\", "a", ",", "b", "->", "a">>,
           <<"(", "a", ":", "T", ")", "=>", "a">>, <<"fnc", "(", "a", ":", "T", ")", "->", "T", "a">>, <<"i1">>, <<"a", "..", "1">>,
           <<"match", "a", "{", "A", ".", "B", "(", "x", ")", "=>", "1", ",", "_", "if", "a", "==", "b", "=>", "{", "}", "(", "1", ",", "_", ")", "=>", "return", "}">>,
           <<"if", "a", "1", "else", "x">>, <<"while", "a", "b">>, <<"loop", "a">>, <<"a", ".", "f", "<", "T", ">", "(", "1", ")", "[", "0", "]", ".", "b">>,
           <<"A", ".", "B", "(", "a", ":", "1", ")">>, <<"A", "::", "B", "<", "T", ">", "(", "1", ")">>, <<"a", ".", "0">>, <<"this", ".", "x">>, <<"a", "?", "b", ":", "x", "?", "1", ":", "0">> }
Statements == { <<"let", "x", ":", "A", "<", "B", "<", "T", ">>", "=", "1", ";">>, <<"var", "x", ";">>, <<"if", "a", "{", "b", ";", "}", "else", "if", "b", "{", "}", "else", "{", "}">>,
           <<"while", "a", "{", "break", ";", "}">>, <<"for", "x", "in", "a", "{", "continue", ";", "}">>, <<"loop", "{", "throw", "a", ";", "}">>,
           <<"for", "(", "let", "x", "=", "0", ";", "x", "<=", "1", ";", "x", "+=", "1", ")", "{", "}">>, <<"for", "(", "x", ";", ";", ";", ")", "{", "}">>,
           <<"try", "{", "}", "catch", "(", "x", ":", "A", ")", "{", "f", "(", ")", ";", "}", "catch", "a", ":", "B", "{", "}", "finally", "{", "}">>,
           <<"defer", "f", "(", "1", ")", ";">>, <<"select", "{", "recv", "a", "->", "x", "{", "}", "default", "{", "}", "}">>,
           <<"a", "[", "0", "]", "[", "1", "]", "=", "b", ";">>, <<"a", ".", "b", "=", "1", ";">>, <<"a", ".", "b", "[", "0", "]", ".", "b", "+=", "1", ";">>, <<"a", "(", "1", ")", ";">>,
           <<"a", "[", "0", "]", ".", "b", "(", "1", ")", ";">>, <<"a", "[", "0", "]", "(", "1", ")", ";">>, <<"A", "::", "B", "(", "1", ")", ".", "f", "(", ")", ";">>, <<"a", "+=", "1", ";">>,
           <<"match", "a", "{", "A", "::", "B", "=>", "{", "}", "}">>, <<"{", ";", "}">>, <<"this", ".", "x", "=", "1", ";">>, <<"return", ";">>, <<"a", "b", ";">>, <<"}">>, <<"if">>, <<"a", "<", "b", ">", "{", "}">> }
Declarations == { <<"@", "A", "(", "str", ",", "A", ".", "B", ",", "[", "1", "]", ")", "doc", "class", "A", "<", "T", ">", "extends", "B", "implements", "A", ",", "B", "{",
              "private", "var", "x", ":", "Int64", "[", "]", "?", ";", "@", "A", "fn", "f", "(", "@", "A", "a", ":", "T", ")", "{", "}", "b", ":", "T", ";", "}">>,
           <<"class", "A", "{", "private", "var", "x", ":", "A", "<", "T", ">", ";", "protected", "fnc", "f", "(", "a", ":", "T", ")", "->", "T", "{", "if", "a", "{", "return", "1", ";", "}", "else", "{", "}", "}", "}">>,
           <<"class", "A", "{", "public", "async", "fn", "f", "<", "T", ">", "(", ")", "{", "}", "}">>,
           <<"interface", "A", "extends", "B", "{", "doc", "fn", "f", "(", "a", ":", "T", ")", "->", "T", ";", "}">>, <<"trait", "A", "{", "fn", "f", "(", ")", "{", "a", ";", "}", "}">>,
           <<"enum", "A", "{", "B", "(", "x", ":", "T", ",", "T", ")", ",", "doc", "A", ";", "}">>, <<"import", "a", ".", "b", "as", "x", ";">>, <<"import", "a", "::", "b", ";">>, <<"module", "a", ".", "b", ";">>,
           <<"namespace", "a", ".", "b", "{", "doc", "@", "A", "class", "A", "{", "}", "@", "A", "immutable", "A", "(", "x", ":", "T", ")", "async", "fn", "f", "(", ")", "{", "}", "x", ";", "}">>,
           <<"extern", "fn", "f", "(", "x", ":", "*", "T", ")", "->", "T", ";">>, <<"doc", "immutable", "A", "(", "x", ":", "fnc", "(", "T", ")", "->", "T", ",", "b", ":", "(", "T", ",", "T", ")", ")">>,
           <<"@", "A", "(", "x", ")", "async", "fn", "f", "<", "T", ",", "A", ">", "(", "x", ":", "mut", "T", "*", "?", ",", "b", ":", "Map", "<", "T", ",", "T", ">", ")", "->", "Any", ";">>,
           <<"fn", "f", "(", ")", "->", "T", "(", "T", ")", "->", "T", "{", "}">>, <<"class", "A", "{", "fn">>, <<"x", ";">>, <<"return", "x", ";">>, <<"enum", "A", "{", "B", "B", "}">>, <<"fn">> }
Soup == UpTo({"fn", "f", "(", ")", "{", "}"}, 4) \cup {s \o <<";">> \o t : s, t \in UpTo({"class", "A", "{", "}"}, 2)}

MCInputs == MCChains \cup {InExpr(t) : t \in Texts \cup Exprs} \cup UNION {Nested(n) : n \in 0..MaxDepth}
            \cup {InBlock(s \o t) : s, t \in Statements} \cup {InBlock(s) : s \in Statements \cup {e \o <<";">> : e \in Exprs}}
            \cup {s \o t : s, t \in Declarations} \cup Declarations \cup Soup

(* Expressions inside each other that no bracket encloses. *)
MCChained == UNION {Chained(n) : n \in 0..MaxDepth}
MCNone == {}

MCInterp == [k \in {"i1"} |-> <<[str |-> TRUE, toks |-> <<>>], [str |-> FALSE, toks |-> <<"a", "+", "1", "b">>]>>]
=============================================================================
