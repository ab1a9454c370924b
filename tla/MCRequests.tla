----------------------------- MODULE MCRequests -----------------------------
(* Requests over the bytes at which a comparison of the code, or a row of    *)
(* Unicode's table, begins or ends.                                          *)
EXTENDS Requests

\* Just enough and one too many, and every reason for main to refuse.
MCIdentities ==
  {[node_id |-> n, callsign |-> c, plain |-> p, sequence |-> q,
    digits |-> IF q < 10 THEN 1 ELSE 2] :
     n \in {0, 64, 65}, c \in {0, 64, 65}, p \in BOOLEAN,
     q \in {1, MaxInteger, MaxInteger + 1}}

RawBytes ==
  {\h41, \h7F, \h80, \h8F, \h90, \h9F, \hA0, \hBF, \hC1, \hC2, \hDF, \hE0,
   \hE1, \hED, \hEF, \hF0, \hF1, \hF4, \hF5}
Characters ==
  {<<"raw", b>> : b \in RawBytes}
    \cup {<<"esc", \h2F>>, <<"u", 0>>, <<"u", \h7FF>>, <<"u", \hD800>>,
          <<"u", \hE000>>, <<"u", \h10000>>}

\* Every string of up to three characters; of four where the first can open a
\* four-byte sequence.
Strings ==
  UNION {[1 .. n -> Characters] : n \in 0 .. 3}
    \cup {<<<<"raw", b>>>> \o s : b \in {\hF0, \hF1, \hF4, \hF5},
                                  s \in [1 .. 3 -> Characters]}

Post == [method |-> "POST", path |-> "messages", media |-> "json",
         json |-> "object", field |-> "string", body |-> <<<<"raw", \h41>>>>]
MCPosts ==
  {[Post EXCEPT !.body = s] : s \in Strings}
    \cup {[Post EXCEPT !.method = m, !.path = p] :
            m \in {"GET", "POST"}, p \in {"", "messages", "status", "unknown"}}
    \cup {[Post EXCEPT !.media = "text"], [Post EXCEPT !.json = "broken"],
          [Post EXCEPT !.json = "array"], [Post EXCEPT !.field = "missing"],
          [Post EXCEPT !.field = "number"]}

Peer == [typed |-> Fields, sequence |-> 1, id |-> Argument(84),
         origin |-> Argument(64), callsign |-> Argument(64),
         channel |-> DefaultChannel, body |-> <<<<"raw", \h41>>>>]
MCForeign ==
  {[Peer EXCEPT !.body = s] : s \in UNION {[1 .. n -> Characters] : n \in 0 .. 2}}
    \cup {[Peer EXCEPT !.typed = Fields \ {f}] : f \in Fields}
    \cup {[Peer EXCEPT !.sequence = n] : n \in {-1, 0, MaxInteger}}
    \cup {[Peer EXCEPT !.channel = "other"]}
    \cup {[Peer EXCEPT !.id = Argument(n)] : n \in {0, 160, 161}}
    \cup {[Peer EXCEPT !.origin = Argument(n), !.callsign = Argument(k)] :
            n, k \in {0, 64, 65}}
    \cup {[Peer EXCEPT !.origin.end = n, !.callsign.end = k] : n, k \in {0, 63}}
=============================================================================
