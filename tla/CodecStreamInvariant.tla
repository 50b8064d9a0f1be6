------------------------ MODULE CodecStreamInvariant ------------------------
(***************************************************************************)
(* What CodecStream keeps in every state: where each item lies, what of it *)
(* is in the stream, and where the reader is.                              *)
(***************************************************************************)
EXTENDS CodecStream

Bytes(i) == write_to_writer(i).value

\* From `at` on, buf has the bytes of w, as far as it reaches.
Has(buf, at, w) == \A k \in 1 .. Len(w) : at + k <= Len(buf) => buf[at + k] = w[k]

\* Where the first j items end in `written`.
End(j) == IF j = 0 THEN 0 ELSE sent[j].at + Len(Bytes(sent[j].item))

\* One item after the other, and none that could not be encoded.
Consecutive ==
    \A j \in DOMAIN sent : /\ write_to_writer(sent[j].item).err = "none"
                           /\ sent[j].at = End(j - 1) /\ sent[j].at <= Len(written)

\* Of all but the last item every byte is written; of that one, what is neither
\* written nor outgoing was dropped with the writer.
WrittenAsSent ==
    /\ \A j \in DOMAIN sent : Has(written, sent[j].at, Bytes(sent[j].item))
    /\ Len(written) <= End(Len(sent))
    /\ \A k \in DOMAIN outgoing :
          LET last == sent[Len(sent)]
          IN  outgoing[k] = Bytes(last.item)[Len(written) + k - last.at]
    /\ IF closed THEN outgoing = <<>> ELSE Len(written) + Len(outgoing) = End(Len(sent))

\* The reader is inside the item it expects, or between two items.
ReadSoFar ==
    /\ Len(received) <= Len(sent)
    /\ \A j \in DOMAIN received : received[j] = Kept(sent[j].item)
    /\ begin = End(Len(received))
    /\ Reading => consumed < End(Len(received) + 1)
    /\ Len(received) = Len(sent) => consumed = begin

\* The errors that an item that is all there may be refused with.
Refused(err, i) ==
    \/ /\ err = "UnsupportedVersion"
       /\ i.form = "header" /\ i.entries[1].val.data # <<CURRENT_VERSION>>
    \/ err = "InvalidNaiveTime" /\ LeapInMinute(i)
    \/ /\ err = "InvalidNaiveDate"
       /\ YearIsCut(i) /\ SubSeq(i.entries[1].val.data, 2, 3) = <<2, 29>>

\* It stopped at the end of a torn item, or at one that it refuses.
StoppedAt ==
    failure # "none" =>
        /\ Len(received) < Len(sent)
        /\ IF failure = "IOError" THEN closed /\ Len(written) < End(Len(received) + 1)
                                  ELSE Refused(failure, Expected)

\* The inductive invariant.
StreamIInv == TypeOK /\ Consecutive /\ WrittenAsSent /\ ReadSoFar /\ StoppedAt
=============================================================================
