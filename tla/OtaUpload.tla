------------------------------ MODULE OtaUpload ------------------------------
(***************************************************************************)
(* A firmware upload (ota_upload_handler in web_server.c).  The body is a  *)
(* multipart form with one part: a start boundary and headers, the image,  *)
(* an end boundary.  It arrives in pieces of any size.  The handler finds  *)
(* the image and writes it as it comes, holding back enough of the end     *)
(* that no part of the end boundary is written.                            *)
(***************************************************************************)
EXTENDS Naturals, Sequences, SequencesExt

CONSTANTS
  Boundary,       \* boundary_line: "--" and the boundary
  Holdback,       \* OTA_HOLDBACK
  MaxRecv,        \* what one httpd_req_recv returns at most
  Images          \* the images uploaded

CrLf == <<"cr", "lf">>
Separator == CrLf \o CrLf

Bytes == {"h", "-", "cr", "lf"} \cup {Boundary[i] : i \in 1 .. Len(Boundary)}
         \cup UNION {{i[k] : k \in 1 .. Len(i)} : i \in Images}

\* The places, from the given one on, where t has s.
Places(s, t, from) == {i \in from .. Len(t) - Len(s) + 1 : SubSeq(t, i, i + Len(s) - 1) = s}
First(S) == CHOOSE i \in S : \A j \in S : i <= j

\* A client chooses a boundary that is not in what it sends.
ImagesAssumption ==
  Images # {} /\ Images \subseteq Seq(Bytes) /\ \A i \in Images : Places(Boundary, i, 1) = {}

BoundaryAssumption ==
  /\ Boundary \in Seq(Bytes) /\ Len(Boundary) > 0
  /\ \A i \in 1 .. Len(Boundary) : Boundary[i] \notin {"cr", "lf"}
\* The end boundary with what surrounds it must fit in what is held back,
\* because the receive that finds the image does not look for it.
HoldbackAssumption == Holdback \in Nat /\ Holdback >= Len(Boundary) + 6
RecvAssumption == MaxRecv \in Nat \ {0}

VARIABLES
  image,        \* the image in the body
  rest,         \* the bytes of the body not yet received
  phase,        \* scan, stream, end, finished, failed
  buf,          \* the first tail_len bytes of buf
  written,      \* what esp_ota_write has been given
  boots,        \* the boot partition has been set to the new image
  found         \* observation: what the receive that found the image contained

vars == <<image, rest, phase, buf, written, boots, found>>

Preamble == Boundary \o CrLf \o <<"h">> \o Separator
Closing == CrLf \o Boundary \o <<"-", "-">> \o CrLf
Body(i) == Preamble \o i \o Closing

Init ==
  /\ image \in Images
  /\ rest = Body(image) /\ phase = "scan"
  /\ buf = <<>> /\ written = <<>>
  /\ boots = FALSE /\ found = "none"

-----------------------------------------------------------------------------
AllBut(s, n) == SubSeq(s, 1, Len(s) - n)
LastOf(s, n) == SubSeq(s, Len(s) - n + 1, Len(s))

Receive(n) == n <= MaxRecv /\ n <= Len(rest) /\ rest' = SubSeq(rest, n + 1, Len(rest))
Received(n) == SubSeq(rest, 1, n)

\* esp_ota_write, which may fail; nothing is written when there is nothing to.
Write(bytes, next) ==
  \/ written' = written \o bytes /\ phase' = next
  \/ bytes # <<>> /\ phase' = "failed" /\ UNCHANGED written

\* All but the bytes held back is written.
Keep(bytes, next) ==
  IF Len(bytes) > Holdback
  THEN Write(AllBut(bytes, Holdback), next) /\ buf' = LastOf(bytes, Holdback)
  ELSE buf' = bytes /\ phase' = next /\ UNCHANGED written

-----------------------------------------------------------------------------
(* The first loop: the boundary and the end of the headers, both in what    *)
(* one receive returns; what does not hold both is thrown away.             *)

Starts(bytes) == Places(Boundary, bytes, 1)
DataAt(bytes) == Places(Separator, bytes, First(Starts(bytes)))
Found(bytes) == Starts(bytes) # {} /\ DataAt(bytes) # {}

ScanDiscard(n) ==
  /\ phase = "scan" /\ Receive(n) /\ ~Found(Received(n))
  /\ buf' = <<>>
  /\ UNCHANGED <<image, phase, written, boots, found>>

ScanFound(n) ==
  /\ phase = "scan" /\ Receive(n) /\ Found(Received(n))
  /\ LET at == First(DataAt(Received(n))) + Len(Separator)
         data == SubSeq(Received(n), at, n)
     IN /\ Keep(data, "stream")
        /\ found' = IF Places(Boundary, data, 1) = {} THEN "image" ELSE "all"
  /\ UNCHANGED <<image, boots>>

-----------------------------------------------------------------------------
(* The second loop: what is held back and what is received are searched     *)
(* for the end boundary together.                                           *)

\* Mutant: only what was received is searched.
SearchedReceived(n) == Received(n)

Searched(n) == buf \o Received(n)

StreamEnd(n) ==
  /\ phase = "stream" /\ Receive(n) /\ Places(Boundary, Searched(n), 1) # {}
  /\ LET at == First(Places(Boundary, Searched(n), 1))
     IN Write(SubSeq(Searched(n), 1, at - 3), "end")
  /\ buf' = <<>>
  /\ UNCHANGED <<image, boots, found>>

StreamOn(n) ==
  /\ phase = "stream" /\ Receive(n) /\ Places(Boundary, Searched(n), 1) = {}
  /\ Keep(Searched(n), "stream")
  /\ UNCHANGED <<image, boots, found>>

\* httpd_req_recv returns nothing more: the body has ended, or the connection.
RecvEnds ==
  /\ phase \in {"scan", "stream"}
  /\ phase' = "end"
  /\ UNCHANGED <<image, rest, buf, written, boots, found>>

-----------------------------------------------------------------------------
\* esp_ota_end accepts what it has been given when that is a complete image.
Accepted == IsPrefix(image, written)

\* esp_ota_end, and esp_ota_set_boot_partition when the image is accepted.
End ==
  /\ phase = "end"
  /\ \/ Accepted /\ phase' = "finished" /\ boots' = TRUE
     \/ phase' = "failed" /\ ~Accepted /\ UNCHANGED boots
  /\ UNCHANGED <<image, rest, buf, written, found>>

Next ==
  \/ \E n \in 1 .. MaxRecv : ScanDiscard(n) \/ ScanFound(n) \/ StreamEnd(n) \/ StreamOn(n)
  \/ RecvEnds
  \/ End

Spec == Init /\ [][Next]_vars

-----------------------------------------------------------------------------
TypeOK ==
  /\ image \in Images
  /\ rest \in Seq(Bytes) /\ buf \in Seq(Bytes) /\ written \in Seq(Bytes)
  /\ Len(buf) <= Holdback
  /\ phase \in {"scan", "stream", "end", "finished", "failed"}
  /\ boots \in BOOLEAN
  /\ found \in {"none", "image", "all"}

\* Nothing but the image is ever written to the partition, whatever the
\* pieces in which the body and its end boundary arrive (lines 574-648).
OnlyTheImage == IsPrefix(written, image)

\* When the end boundary has been found, or the body ended after an image that
\* did not come with its end in one receive, every byte has been written.
CompleteAtTheEnd ==
  phase = "end" /\ rest = <<>> /\ found = "image" => written = image

\* The new firmware is booted only when it is complete (lines 652-665).
BootsComplete == boots => written = image

\* Together: a new firmware is exactly the one uploaded, or is not booted.
UploadExact == TypeOK /\ OnlyTheImage /\ CompleteAtTheEnd /\ BootsComplete
=============================================================================
