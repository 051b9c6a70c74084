----------------------------- MODULE MCProtocol -----------------------------
(***************************************************************************)
(* The protocol above the bytes: framing, the exchange of requests and     *)
(* answers, the table of the endpoint's own calls, the JSON of the         *)
(* messages, and the documents and paths they are about.  A behaviour      *)
(* exercises one of them, the subject; the others stay in one initial      *)
(* state.                                                                  *)
(***************************************************************************)
EXTENDS MessageExchange, PendingRequests, Framing, WorkingFiles, Uris, Codec

CONSTANT Subjects   \* the parts to consider

VARIABLE subject

(* Exchange *)

Message(method, id, result, valid) ==
    [json |-> TRUE, version |-> TRUE, method |-> method, id |-> id,
     result |-> result, valid |-> valid]
Request(method) == Message("textDocument/" \o method, "id", FALSE, TRUE)
Requests == {Request(m) : m \in {"hover", "completion", "inlayHint", "none"}}
Oddities ==
    {Request("codeLens"), Request("none"),
     Message("textDocument/hover", "id", FALSE, FALSE),
     Message("textDocument/hover", "null", FALSE, FALSE),
     Message("textDocument/didOpen", "none", FALSE, TRUE),
     Message("textDocument/hover", "none", FALSE, TRUE),
     Message("none", "id", TRUE, TRUE),
     Message("none", "none", FALSE, TRUE),
     [Request("hover") EXCEPT !.version = FALSE]}
Registered == [m \in {"textDocument/hover", "textDocument/completion", "textDocument/inlayHint"} |->
    CASE m = "textDocument/hover" -> "sync"
      [] m = "textDocument/completion" -> "async"
      [] OTHER -> "never"]
Plan(inbox, n, sessions, called, breaks) ==
    [inbox |-> inbox, frames |-> n, sessions |-> sessions, calls |-> called, breaks |-> breaks]
ExchangePlans ==
    {Plan(Requests, 2, 2, {}, FALSE),
     Plan(Oddities, 2, 1, {}, TRUE),
     Plan({[Reply("textDocument/hover") EXCEPT !.valid = FALSE]}, 2, 2, CallMethods, FALSE)}

(* Calls.  The application chooses all ids, or none of them. *)
ChosenIds ==
    [maxPending |-> 0, autoIds |-> FALSE, chosenIds |-> TRUE,
     callbacks |-> TRUE, timeouts |-> FALSE]
AssignedIds ==
    [maxPending |-> 1, autoIds |-> TRUE, chosenIds |-> FALSE,
     callbacks |-> TRUE, timeouts |-> TRUE]
OneKind ==
    {ChosenIds, AssignedIds, [ChosenIds EXCEPT !.callbacks = FALSE, !.timeouts = TRUE]}

\* Ids of both kinds are mixed.
MixedIds == {[ChosenIds EXCEPT !.autoIds = TRUE, !.callbacks = FALSE]}

(* Framing *)
Header(n) == CASE n = 0 -> "L0" [] n = 1 -> "L1" [] n = 2 -> "L2" [] OTHER -> "L3"
Block(before, end, body) == [head |-> before \o <<Header(Len(body))>> \o end, body |-> body, sent |-> TRUE]
Line == <<"CR", "LF">>
Noise(head) == [head |-> head, body |-> <<>>, sent |-> FALSE]
Blocks ==
    {Block(<<>>, Line \o Line, <<"LF", "LF", "L1">>),
     Block(<<"Lx">> \o Line, Line \o <<"type">> \o Line \o Line, <<"b">>),
     Block(Line, <<"LF", "LF">>, <<"b", "b">>),
     Block(<<"L3">> \o Line, Line \o Line, <<>>),
     Noise(<<"type">> \o Line \o Line), Noise(Line \o Line)}
HeaderLengths ==
    [h \in {"L0", "L1", "L2", "L3"} |->
        CASE h = "L0" -> 0 [] h = "L1" -> 1 [] h = "L2" -> 2 [] OTHER -> 3]
FrameLimits == [max : {0, 2}, drop : BOOLEAN]
PeerWires == {<<a, b>> : a, b \in Blocks}
Ln(left, text, right) == [left |-> left, text |-> text, right |-> right]
Plainly(text) == Ln(<<>>, text, <<>>)
Delimiter == Plainly(<<"// -----">>)
Indented == <<"SP">>
Layouts(texts) ==
    LET lines == [i \in DOMAIN texts |-> Plainly(texts[i])] IN
    {lines \o <<Delimiter>>,
     <<Plainly(<<>>)>> \o [i \in DOMAIN texts |-> Ln(Indented, texts[i], <<"SP", "CR">>)]
        \o <<Plainly(<<"//", "b">>), Ln(Indented, <<"// -----">>, <<"CR">>)>>,
     <<Plainly(<<"// -----", "b">>), Ln(Indented, <<>>, <<>>)>> \o lines
        \o <<Plainly(<<>>), Delimiter>>}
Pieces ==
    {[content |-> <<"b">>, lines |-> lines] : lines \in Layouts(<<<<"b">>>>)}
       \cup {[content |-> <<"b", "SP", "x", "x">>, lines |-> lines] :
                 lines \in Layouts(<<<<"b", "SP", "x">>, <<"x">>>>)}
       \cup {[content |-> <<>>, lines |-> <<Delimiter>>]}
TestScripts == {<<a, b>> : a, b \in Pieces}

(* Documents *)
Dir == [f \in Files |-> f]
Start == {<<"a", "n", "g">>, <<"e">>}
Put == {<<>>, <<"g">>, <<"n">>}

(* Paths *)
Maps == <<[client |-> <<"/", "a">>, server |-> <<"/", "2", "/", ":">>],
          [client |-> <<"/", ".", "a">>, server |-> <<"/", "%">>]>>

-----------------------------------------------------------------------------
AllSubjects == {"exchange", "calls", "framing", "documents", "paths", "values"}

\* The other parts start in one of their initial states.
ProtocolInit ==
    /\ subject \in Subjects
    /\ IF subject = "exchange" THEN ExchangeInit
       ELSE ExchangeInit /\ plan = CHOOSE p \in Plans : TRUE
    /\ PendingInit
    /\ subject # "calls" => setup = CHOOSE s \in Setups : TRUE
    /\ IF subject = "framing" THEN FramingInit
       ELSE FramingStarts(CHOOSE w \in Wires : TRUE, 0, [max |-> 0, drop |-> FALSE])
    /\ DocInit /\ UriInit
    /\ IF subject = "values" THEN CodecInit ELSE sent = <<>>

ProtocolNext ==
    /\ UNCHANGED subject
    /\ \/ /\ subject = "exchange" /\ ExchangeNext
          /\ UNCHANGED <<pendingVars, framingVars, docVars, path, sent>>
       \/ /\ subject = "calls" /\ PendingNext
          /\ UNCHANGED <<exchangeVars, framingVars, docVars, path, sent>>
       \/ /\ subject = "framing" /\ FramingNext
          /\ UNCHANGED <<exchangeVars, pendingVars, docVars, path, sent>>
       \/ /\ subject = "documents" /\ DocNext
          /\ UNCHANGED <<exchangeVars, pendingVars, framingVars, path, sent>>
       \/ /\ subject = "paths" /\ UriNext
          /\ UNCHANGED <<exchangeVars, pendingVars, framingVars, docVars, sent>>
       \/ /\ subject = "values" /\ CodecNext
          /\ UNCHANGED <<exchangeVars, pendingVars, framingVars, docVars, path>>

ProtocolSpec ==
    /\ ProtocolInit
    /\ [][ProtocolNext]_<<subject, exchangeVars, pendingVars, framingVars, docVars, path, sent>>
    /\ ExchangeFairness /\ PendingFairness
=============================================================================
