----------------------------- MODULE MCHttpRequest -----------------------------
(***************************************************************************)
(* HttpRequest.tla with a buffer of a few bytes and requests of every kind *)
(* of target, line end, header and body.                                   *)
(***************************************************************************)
EXTENDS HttpRequest, SequencesExt

\* A header shorter than the buffer, one that fills it, one that is longer.
Short == <<"x">>
Full  == <<"x", "x", "x">>
Long  == <<"x", "x", "x", "x">>

\* What the page posts, in short.
Command == <<"U", Delim, "S">>

\* Bodies with a second token missing, one that fills postContent, and one that is
\* longer than that.
OtherBodies ==
  {<<"U", "S", "S">>, <<Delim, "U", Delim>>, <<"U", Delim, "S", "S">>,
   <<"U", Delim, "S", "S", "S">>}

\* A request with these headers, laid out as the client sends it.
Laid(verb, target, query, eol, headers, announced, body) ==
  LET lines == <<<<RequestLine>>>> \o headers \o <<<< >>>>
      Before(k) == FlattenSeq([i \in 1 .. k - 1 |-> lines[i] \o eol])
  IN  [method |-> verb, target |-> target, query |-> query, eol |-> eol,
       announced |-> announced, lines |-> lines, body |-> body,
       lineAt |-> [k \in 1 .. Len(lines) + 1 |-> Len(Before(k))],
       bytes |-> Before(Len(lines) + 1) \o body]

Get(target, query, eol) == Laid("GET", target, query, eol, <<Short>>, 0, << >>)

Post(target, headers, eol, announced, body) ==
  Laid("POST", target, FALSE, eol, headers, announced, body)

CRLF == <<CR, LF>>
Eols == {CRLF, <<CR>>, <<LF>>}
Length == <<ContentLength>>

MCRequests ==
  {Get(target, query, CRLF) : target \in Targets, query \in BOOLEAN}
    \cup {Get("file", FALSE, eol) : eol \in Eols}
    \cup {[Get("file", FALSE, CRLF) EXCEPT !.method = "other"]}
    \cup {Post("motor_control.c", <<header, Length>>, eol, 3, Command) :
            header \in {Short, Full, Long}, eol \in Eols}
    \cup {Post("motor_control.c", <<Length, header>>, CRLF, 3, Command) :
            header \in {Short, Full, Long}}
    \cup {Post("motor_control.c", <<Length>>, CRLF, announced, Command) :
            announced \in 0 .. PostSize + 1}
    \cup {Post("motor_control.c", <<Length>>, CRLF, Len(body), body) : body \in OtherBodies}
    \cup {Post("motor_control.c", <<Length>>, eol, 3, <<LF, Delim, "S">>) : eol \in Eols}
    \cup {Post(target, <<Short>>, CRLF, 0, << >>) : target \in {"motor_control.c", "file"}}
    \cup {Post(target, <<Length>>, CRLF, 1, <<"S">>) : target \in {"file", "script"}}
================================================================================
