------------------------------- MODULE MCArgs -------------------------------
(* Args on small command lines: all sequences of at most MaxTokens tokens,   *)
(* beside a few sets of changed flags.                                       *)
EXTENDS Args

CONSTANTS port, serverPort, debug, empty, pPort, pDebug, MaxTokens

\* "server-port" and "server.port" are two names of one path; "" is no path.
PathOfNames == [n \in {port, serverPort, debug, empty} |->
                  CASE n \in {port, serverPort} -> pPort
                    [] n = debug -> pDebug
                    [] OTHER     -> NoPath]

\* The name of a token that is no flag does not matter.
Tokens == [kind : FlagKinds, name : Names]
            \cup [kind : {"dashes", "word"}, name : {debug}]

ByName(n)       == [name |-> n, annotation |-> NoPath]
Annotated(n, p) == [name |-> n, annotation |-> p]
FlagSets == {<<>>,
             <<ByName(debug)>>,
             <<ByName(empty)>>,
             <<Annotated(empty, pPort), ByName(debug)>>,
             <<ByName(port), ByName(serverPort)>>,
             <<ByName(debug), Annotated(port, pDebug)>>}

CommandLines == [tokens : UNION {[1..n -> Tokens] : n \in 0..MaxTokens},
                 flags  : FlagSets]
=============================================================================
