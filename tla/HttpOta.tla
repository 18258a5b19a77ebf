------------------------------ MODULE HttpOta ------------------------------
(***************************************************************************)
(* An update over HTTP, extras/http_client_ota: the client reads what the  *)
(* server sends in whatever pieces it arrives, strips the header in place, *)
(* and hands the body to a callback a sector at a time; the updater stores *)
(* it in the other slot, compares the digest and selects the slot.         *)
(*                                                                         *)
(* A cell stands for some bytes.  A response is its header, a cell with    *)
(* the status and an End cell (the empty line), then the body; a cell of a *)
(* file may look like the empty line too.                                  *)
(***************************************************************************)
EXTENDS Integers, Sequences

CONSTANTS
    BUFFER_SIZE,        \* of the buffer, and of a sector
    MAX_IMAGE_SIZE,     \* of a slot
    HUGE                \* what -1 is as a uint16_t

End == "end"
Nul == "nul"
Old == "old"
Digest == "digest"

VARIABLES
    http,   \* HttpClient_dowload: pc, what has yet to arrive, the buffer and
            \* how full it is, the bytes of the body counted; and the static
            \* http_reponse
    ota     \* ota_update: the step, its arguments, the slot's flash with the
            \* sector behind it, the hash so far, the current rom; and whether
            \* the connection failed it (ghost)

httpVars == <<http, ota>>

Cells == 0 .. MAX_IMAGE_SIZE + BUFFER_SIZE - 1

(* The buffer comes from malloc and may hold an old header. *)
Malloc == {[i \in 1 .. BUFFER_SIZE |-> old] : old \in {Nul, Old, End}}

NoOta == [step |-> "idle", sha |-> FALSE, file |-> << >>, good |-> TRUE, offset |-> 0,
          flash |-> [c \in Cells |-> Old], ctx |-> << >>, rom |-> "running", err |-> "none", faulty |-> FALSE]

NoHttp(buffer) ==
    [pc |-> "none", left |-> << >>, buffer |-> buffer, full |-> 0, tot |-> 0, code |-> "none", length |-> 0, sent |-> 0]

HttpInit == \E buffer \in Malloc : http = NoHttp(buffer) /\ ota = NoOta

-----------------------------------------------------------------------------
(* ota_firmaware_dowload_callback; its result is ignored by the client.  A   *)
(* size beyond the buffer takes what lies behind it in memory.               *)
Data(buffer, size) == [i \in 1 .. size |-> IF i <= BUFFER_SIZE THEN buffer[i] ELSE Old]

EraseSector(flash, offset) ==
    IF offset % BUFFER_SIZE = 0
    THEN [c \in Cells |-> IF c \div BUFFER_SIZE = offset \div BUFFER_SIZE THEN Nul ELSE flash[c]]
    ELSE flash

FirmwareCallback(o, buffer, size) ==
    LET hashed == IF o.sha THEN [o EXCEPT !.ctx = @ \o Data(buffer, size)] ELSE o
        erased == EraseSector(o.flash, o.offset)
    IN IF o.offset + size > MAX_IMAGE_SIZE THEN hashed
       ELSE [hashed EXCEPT
               !.flash = [c \in Cells |-> IF c - o.offset \in 0 .. size - 1
                                          THEN Data(buffer, size)[c - o.offset + 1] ELSE erased[c]],
               !.offset = @ + size]

(* SHA256_check_callback keeps the text; only whether it is the digest of    *)
(* the file matters.                                                         *)
ShaCallback(o, buffer, size) == [o EXCEPT !.good = @ /\ size > 0 /\ buffer[1] = Digest]

Callback(o, buffer, size) ==
    IF o.step = "sha" THEN ShaCallback(o, buffer, size) ELSE FirmwareCallback(o, buffer, size)

-----------------------------------------------------------------------------
(* How ota_update goes on with the result of a download. *)
Resume(o, err) ==
    IF err # "HTTP_OK" THEN [o EXCEPT !.step = "done", !.err = err]
    ELSE IF o.step = "sha" THEN [o EXCEPT !.step = "firmware"]
    ELSE [o EXCEPT !.step = "verify"]

(* ota_update, to the first download. *)
OtaUpdate(file, sha) ==
    /\ ota.step = "idle"
    /\ ota' = [ota EXCEPT !.step = IF sha THEN "sha" ELSE "firmware", !.sha = sha, !.file = file]
    /\ UNCHANGED http

(* rboot_get_config has one rom only. *)
OneSlotOnly ==
    /\ ota.step = "idle"
    /\ ota' = [ota EXCEPT !.step = "done", !.err = "OTA_ONE_SLOT_ONLY"]
    /\ UNCHANGED http

(* The lookup, the socket, the connection or the request fails. *)
HttpFails(err) ==
    /\ ota.step \in {"sha", "firmware"} /\ http.pc = "none"
    /\ ota' = Resume(ota, err)
    /\ UNCHANGED http

(* The request is sent; the server answers with the file, or refuses. *)
HttpRequest(found) ==
    LET body == IF ~found THEN <<Old>> ELSE IF ota.step = "sha" THEN <<Digest>> ELSE ota.file IN
    /\ ota.step \in {"sha", "firmware"} /\ http.pc = "none"
    /\ http' = [http EXCEPT !.pc = "read", !.full = 0, !.tot = 0, !.sent = Len(body),
                            !.left = <<IF found THEN "200" ELSE "404", End>> \o body]
    /\ UNCHANGED ota

\* Mutant: the length of the body is not compared.
AnyLength(h, o) ==
    /\ ota' = Resume(Callback(o, h.buffer, IF h.full < 0 THEN HUGE ELSE h.full), h.code)
    /\ http' = [h EXCEPT !.pc = "none", !.left = << >>]

(* After the loop: final_cb, and the comparison of the lengths. *)
Finish(h, o) ==
    LET code == IF h.tot # h.length THEN "HTTP_DOWLOAD_SIZE_NOT_MATCH" ELSE h.code IN
    /\ ota' = Resume(Callback(o, h.buffer, IF h.full < 0 THEN HUGE ELSE h.full), code)
    /\ http' = [h EXCEPT !.pc = "none", !.left = << >>, !.code = code]

(* Another turn of the loop if something was read. *)
Turn(h, o, n) == IF n > 0 THEN http' = h /\ ota' = o ELSE Finish(h, o)

(* Where strstr finds the empty line. *)
Found(buffer) == {i \in DOMAIN buffer : buffer[i] = End /\ \A j \in 1 .. i - 1 : buffer[j] \notin {End, Nul}}

(* parse_http_header: the status and Content-Length; in what is not a header *)
(* any number it meets becomes the status.                                   *)
Parsed(h, at) ==
    IF at = 2 /\ h.buffer[1] \in {"200", "404"}
    THEN {[h EXCEPT !.code = IF h.buffer[1] = "200" THEN "HTTP_OK" ELSE "HTTP_NOTFOUND", !.length = h.sent]}
    ELSE {h, [h EXCEPT !.code = "HTTP_NOTFOUND"]}

(* The first chunks: no empty line yet, or the header is parsed and what     *)
(* follows it moved to the front.  An empty line found behind what was read  *)
(* makes the size negative, and memmove runs out of the memory.              *)
HeaderChunk(h, o, n) ==
    \/ Found(h.buffer) = {} /\ Turn(h, o, n)
    \/ \E at \in Found(h.buffer) :
          \/ at > h.full /\ http' = [h EXCEPT !.pc = "died"] /\ ota' = o
          \/ /\ at <= h.full
             /\ \E p \in Parsed(h, at) :
                   LET size == h.full - at
                       moved == [p EXCEPT !.full = size, !.tot = size,
                                          !.buffer = [i \in DOMAIN @ |-> IF i <= size THEN @[at + i] ELSE @[i]]]
                   IN IF p.code = "HTTP_OK" THEN Turn(moved, o, n)
                      ELSE ota' = Resume(o, p.code) /\ http' = [moved EXCEPT !.pc = "none", !.left = << >>]

(* A chunk of the body: a full buffer goes to the callback and is cleared. *)
BodyChunk(h, o, n) ==
    LET counted == [h EXCEPT !.tot = @ + n] IN
    IF h.full = BUFFER_SIZE
    THEN Turn([counted EXCEPT !.buffer = [i \in DOMAIN @ |-> Nul], !.full = 0], Callback(o, h.buffer, h.full), n)
    ELSE Turn(counted, o, n)

(* One turn of the loop.  read gives some of what has arrived; 0 when the    *)
(* server has closed the connection, early perhaps, or no room was left; -1  *)
(* when it failed.                                                           *)
HttpRead(n) ==
    LET h == [http EXCEPT !.full = @ + n,
                          !.left = IF n < 0 THEN @ ELSE SubSeq(@, n + 1, Len(@)),
                          !.buffer = [i \in DOMAIN @ |-> IF i - http.full \in 1 .. n
                                                         THEN http.left[i - http.full] ELSE @[i]]]
        o == [ota EXCEPT !.faulty = @ \/ n < 0 \/ (n = 0 /\ http.left # << >>) \/ (http.tot = 0 /\ n < 3)]
    IN /\ http.pc = "read" /\ n <= BUFFER_SIZE - http.full /\ n <= Len(http.left)
       /\ IF http.tot = 0 THEN HeaderChunk(h, o, n) ELSE BodyChunk(h, o, n)

(* The digests are compared and the image verified, which may accept what is *)
(* not the file; then the slot is selected, unless that fails.               *)
OtaVerify ==
    /\ ota.step = "verify"
    /\ \E err \in {"HTTP_SHA_DONT_MATCH", "OTA_IMAGE_VERIFY_FALLIED", "OTA_FAIL_SET_NEW_SLOT", "OTA_UPDATE_DONE"} :
          /\ (err = "HTTP_SHA_DONT_MATCH") <=> (ota.sha /\ ~(ota.good /\ ota.ctx = ota.file))
          /\ ota' = [ota EXCEPT !.step = "done", !.err = err,
                                !.rom = IF err = "OTA_UPDATE_DONE" THEN "new" ELSE @]
    /\ UNCHANGED http

(* After a failure ota_update may be called again, with http_reponse as it    *)
(* was, and what is in the slot is old; after an update, or a crash, the      *)
(* device starts anew.                                                        *)
OtaAgain ==
    /\ ota.step = "done" /\ ota.rom = "running"
    /\ ota' = NoOta
    /\ \E buffer \in Malloc :
          http' = [NoHttp(buffer) EXCEPT !.code = http.code, !.length = http.length]

HttpReboot ==
    /\ ota.rom = "new" \/ http.pc = "died"
    /\ ota' = NoOta
    /\ \E buffer \in Malloc : http' = NoHttp(buffer)

OtaStep ==
    \/ OneSlotOnly \/ OtaAgain \/ HttpReboot
    \/ \E err \in {"HTTP_DNS_LOOKUP_FALLIED", "HTTP_SOCKET_ALLOCATION_FALLIED",
                  "HTTP_SOCKET_CONNECTION_FALLIED", "HTTP_REQUEST_SEND_FALLIED"} : HttpFails(err)
    \/ \E found \in BOOLEAN : HttpRequest(found)
    \/ \E n \in -1 .. BUFFER_SIZE : HttpRead(n)
    \/ OtaVerify

-----------------------------------------------------------------------------
(* However the response is cut into pieces, and wherever it breaks off: the  *)
(* slot is selected only if it holds the file, nothing behind the slot is    *)
(* touched, and a download that lost nothing is not refused for its size or  *)
(* its digest.                                                               *)
UpdateWhole ==
    /\ ota.rom = "new" => \A i \in DOMAIN ota.file : ota.flash[i - 1] = ota.file[i]
    /\ \A c \in Cells : c >= MAX_IMAGE_SIZE => ota.flash[c] = Old
    /\ ~ota.faulty => /\ http.pc # "died"
                      /\ ota.err \notin {"HTTP_DOWLOAD_SIZE_NOT_MATCH", "HTTP_SHA_DONT_MATCH"}

=============================================================================
