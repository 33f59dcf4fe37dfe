---------------------------- MODULE MCHttpParser ----------------------------
(***************************************************************************)
(* Requests for the parser, each read in every possible split.             *)
(***************************************************************************)
EXTENDS HttpParser

(* The request lines: "GET", "POST", "ABS" and the routes are accepted,    *)
(* the others exercise each early return of parse_request_line() and its   *)
(* URL rewriting.  The routes reach each branch of do_request().           *)
MCRequestLines ==
    [a \in {"GET", "POST", "BADLINE", "V10", "ABS", "SABSNOPATH", "REL",
            "ABSNOPATH", "R0", "R5", "DIR", "PDIR"} |->
        CASE a = "GET"        -> <<"GET", <<"/">>, "HTTP/1.1">>
          [] a = "POST"       -> <<"POST", <<"/", "3">>, "HTTP/1.1">>
          [] a = "R0"         -> <<"GET", <<"/", "x", "/", "0">>, "HTTP/1.1">>
          [] a = "R5"         -> <<"GET", <<"/", "5">>, "HTTP/1.1">>
          [] a = "DIR"        -> <<"GET", <<"/", "d">>, "HTTP/1.1">>
          [] a = "PDIR"       -> <<"GET", <<"/", "p">>, "HTTP/1.1">>
          [] a = "BADLINE"    -> <<"PUT", <<"/">>, "HTTP/1.1">>
          [] a = "V10"        -> <<"GET", <<"/", "a">>, "HTTP/1.0">>
          [] a = "ABS"        -> <<"GET", <<"http://", "host", "/", "a">>, "HTTP/1.1">>
          [] a = "SABSNOPATH" -> <<"GET", <<"https://", "host">>, "HTTP/1.1">>
          [] a = "REL"        -> <<"GET", <<"a">>, "HTTP/1.1">>
          [] a = "ABSNOPATH"  -> <<"GET", <<"http://", "host">>, "HTTP/1.1">>]

(* The document root: register.html is missing, picture.html is not      *)
(* world-readable, /d a directory and /p one that is not world-readable.   *)
MCDocRoot ==
    [x \in {<<"/", "judge.html">>, <<"/", "a">>, <<"/", "picture.html">>,
            <<"/", "d">>, <<"/", "p">>} |->
        CASE x = <<"/", "picture.html">> -> "private"
          [] x = <<"/", "d">>            -> "dir"
          [] x = <<"/", "p">>            -> "privatedir"
          [] OTHER                       -> "file"]

(* GET with no headers, GET with keep-alive and Host, rejected request    *)
(* lines, an absolute URL, a POST with a one-byte body.                    *)
WellFormed ==
    { <<"GET", CR, LF, CR, LF>>,
      <<"GET", CR, LF, "KA", CR, LF, "HOST", CR, LF, CR, LF>>,
      <<"BADLINE", CR, LF, CR, LF>>,
      <<"V10", CR, LF, CR, LF>>,
      <<"ABS", CR, LF, CR, LF>>,
      <<"SABSNOPATH", CR, LF, CR, LF>>,
      <<"REL", CR, LF, CR, LF>>,
      <<"R0", CR, LF, CR, LF>>,
      <<"R5", CR, LF, CR, LF>>,
      <<"DIR", CR, LF, CR, LF>>,
      <<"PDIR", CR, LF, CR, LF>>,
      <<"POST", CR, LF, "CL1", CR, LF, CR, LF, "b">> }

(* A POST whose two-byte body may arrive in two reads.                     *)
TwoByteBody == { <<"POST", CR, LF, "CL2", CR, LF, CR, LF, "b", "b">> }

(* A request line with a bare CR inside it.                                *)
BareCR == { <<"GET", CR, "KA", CR, LF, CR, LF>> }

(* An absolute URL with no path: GET http://host HTTP/1.1.                 *)
AbsoluteNoPath == { <<"ABSNOPATH", CR, LF, CR, LF>> }
(* Every request above: the split bodies, the bare CR and the NULL URL    *)
(* are where the code goes wrong, and a verdict it reaches on them must    *)
(* still be the reference one.                                             *)
MCMessages == WellFormed \cup TwoByteBody \cup BareCR \cup AbsoluteNoPath
=============================================================================
