------------------------------ MODULE MCHttpRelay ------------------------------
(***************************************************************************)
(* Messages for HttpRelay: heads of up to three lines, bodies of up to     *)
(* three parts, in each of the ways a length can be given.                 *)
(***************************************************************************)
EXTENDS HttpRelay, TLC

Lines(kinds) == [i \in DOMAIN kinds |-> Sym(kinds[i])]
Bodies == {<<>>} \union {Lines(<<"data">>), Lines(<<"data", "zerodata">>)}

\* The request or status line, and perhaps one with a token or one that ends in 0;
\* the request line may have bytes above 127.
Starts == {Lines(<<"line">>), Lines(<<"line", "zeroline">>)}
Tokens == {Lines(<<"line", "authorization">>), Lines(<<"line", "x-api-key">>),
           Lines(<<"line", "x-api-key", "authorization">>),
           Lines(<<"eightbit", "authorization">>)}

Sized(starts) ==
  {Message(h \o <<Length(Len(b))>>, b, FALSE, FALSE) : h \in starts, b \in Bodies}
Misnamed(starts) ==
  {Message(h \o <<Other(n), Length(1)>>, Lines(<<"data">>), FALSE, FALSE)
     : h \in starts, n \in {0, 2}}
Chunked(starts) ==
  {Message(h, b \o Lines(<<e>>), FALSE, FALSE)
     : h \in {Lines(<<"chunked">>) \o s : s \in starts}, b \in Bodies,
       e \in {"last", "trailer"}}

MCRequests ==
  {Message(h, <<>>, FALSE, c) : h \in Starts \union Tokens, c \in BOOLEAN}
    \union Sized(Starts \union Tokens) \union Misnamed(Starts)
    \union Chunked({Lines(<<"line">>)})

MCResponses ==
  Sized(Starts) \union Misnamed(Starts) \union Chunked(Starts)
    \union {Message(h, b, FALSE, TRUE) : h \in Starts, b \in Bodies}
    \union {Message(h, <<>>, TRUE, FALSE) : h \in Starts \union {Lines(<<"line">>) \o <<Length(3)>>}}
===============================================================================
