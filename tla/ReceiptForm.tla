----------------------------- MODULE ReceiptForm -----------------------------
(***************************************************************************)
(* The form by which a vendor posts a spending receipt with a photo or a   *)
(* scan.  The preview of a chosen image is read in the background and      *)
(* serves as the copy that is kept in this browser under the file's hash;  *)
(* the file can be changed while it is read, and while a receipt is being  *)
(* posted.  A file stands for its hash and for its data.                   *)
(***************************************************************************)
EXTENDS Integers, Sequences, SequencesExt

CONSTANTS
    Files, NoFile,
    Images,     \* the files that get a preview
    Large,      \* the files over MAX_ATTACHMENT_BYTES
    Disbursed,  \* what the proposal was paid
    MaxAmount   \* bound on the amounts typed

ASSUME ReceiptFormAssumption ==
    /\ NoFile \notin Files
    /\ Images \subseteq Files /\ Large \subseteq Files
    /\ Disbursed \in Nat /\ MaxAmount \in Nat \ {0}

VARIABLES
    attachmentFile, attachmentPreviewUrl,  \* the form's state
    readers,      \* images that are being read for a preview
    post,         \* handlePostReceipt: where it is, and what it was clicked with
    receiptError,
    receipts,     \* the chain's, of this proposal
    listed,       \* those the page has read
    cache,        \* localStorage: the data kept under each hash
    refused,      \* history: hashes whose data the storage would not take
    clicked       \* history: the last click, as long as it has posted nothing

formVars == <<attachmentFile, attachmentPreviewUrl, readers>>
formFilesVars == <<cache, refused>>
receiptFormVars == <<formVars, post, receiptError, receipts, listed, formFilesVars, clicked>>

Amounts == 1 .. MaxAmount
MaybeFile == Files \cup {NoFile}
Receipt == [file : MaybeFile, amount : Amounts, own : BOOLEAN]
Click == [file : MaybeFile, amount : Amounts]

Idle == [at |-> "idle", file |-> NoFile, preview |-> NoFile, amount |-> 1]

FormTypeOK ==
    /\ attachmentFile \in MaybeFile \ Large
    /\ attachmentPreviewUrl \in Images \cup {NoFile}
    /\ readers \subseteq Images \ Large
    /\ post \in [at : {"idle", "hash", "read", "send", "refresh"},
                 file : MaybeFile, preview : MaybeFile, amount : Amounts]
    /\ receiptError \in BOOLEAN
    /\ receipts \in Seq(Receipt) /\ listed \in Seq(Receipt)
    /\ cache \in [Files -> MaybeFile] /\ refused \subseteq Files
    /\ clicked \subseteq Click

FormInit ==
    /\ attachmentFile = NoFile /\ attachmentPreviewUrl = NoFile /\ readers = {}
    /\ post = Idle /\ receiptError = FALSE
    /\ receipts = <<>> /\ listed = <<>>
    /\ cache = [f \in Files |-> NoFile] /\ refused = {}
    /\ clicked = {}

Total(rs) == FoldLeft(LAMBDA sum, r : sum + r.amount, 0, rs)

Remaining == Disbursed - Total(listed)

\* handleAttachmentChange; NoFile when the dialogue is cancelled.  The field is
\* there as long as something is left to account for, also during a post.
Choose(f) ==
    /\ Remaining > 0
    /\ IF f \in Large
       THEN receiptError' = TRUE /\ UNCHANGED formVars
       ELSE /\ receiptError' = FALSE
            /\ attachmentFile' = f
            /\ attachmentPreviewUrl' = NoFile
            /\ readers' = readers \cup ({f} \cap Images)
    /\ UNCHANGED <<post, receipts, listed, formFilesVars, clicked>>

\* The button beside the attachment.
Detach ==
    /\ Remaining > 0 /\ attachmentFile # NoFile
    /\ attachmentFile' = NoFile /\ attachmentPreviewUrl' = NoFile
    /\ UNCHANGED <<readers, post, receiptError, receipts, listed, formFilesVars, clicked>>

\* A preview has been read, or cannot be: whichever file is attached by now.
Previewed(f) ==
    /\ readers' = readers \ {f}
    /\ attachmentPreviewUrl' \in {f, attachmentPreviewUrl}
    /\ UNCHANGED <<attachmentFile, post, receiptError, receipts, listed, formFilesVars, clicked>>

\* The receipt is submitted, with the file and the preview of this moment.
Submit(a) ==
    /\ Remaining > 0 /\ post.at = "idle"
    /\ receiptError' = (a > Remaining)
    /\ post' = IF a > Remaining THEN Idle
               ELSE [at |-> IF attachmentFile = NoFile THEN "send" ELSE "hash",
                     file |-> attachmentFile, preview |-> attachmentPreviewUrl, amount |-> a]
    /\ clicked' = {[file |-> attachmentFile, amount |-> a]}
    /\ UNCHANGED <<formVars, receipts, listed, formFilesVars>>

\* cacheAttachment: a full or missing storage is passed over in silence.
Keep(f, data) ==
    \/ cache' = [cache EXCEPT ![f] = data] /\ UNCHANGED refused
    \/ refused' = refused \cup {f} /\ UNCHANGED cache

\* Mutant of Hashed: only what has no preview yet is kept.
HashedKeepsUnread ==
    /\ post.at = "hash"
    /\ post' = [post EXCEPT !.at = IF post.preview = NoFile THEN "read" ELSE "send"]
    /\ UNCHANGED <<formVars, receiptError, receipts, listed, formFilesVars, clicked>>

Hashed ==
    /\ post.at = "hash"
    /\ IF post.preview = NoFile
       THEN post' = [post EXCEPT !.at = "read"] /\ UNCHANGED formFilesVars
       ELSE post' = [post EXCEPT !.at = "send"] /\ Keep(post.file, post.preview)
    /\ UNCHANGED <<formVars, receiptError, receipts, listed, clicked>>

Read ==
    /\ post.at = "read"
    /\ post' = [post EXCEPT !.at = "send"]
    /\ Keep(post.file, post.file)
    /\ UNCHANGED <<formVars, receiptError, receipts, listed, clicked>>

\* The file is gone or cannot be read any more.
Unreadable ==
    /\ post.at \in {"hash", "read"}
    /\ post' = Idle
    /\ receiptError' = TRUE
    /\ UNCHANGED <<formVars, receipts, listed, formFilesVars, clicked>>

\* Mutant of Sent: the receipt names the file attached when it is signed.
SentLate ==
    /\ post.at = "send"
    /\ Total(receipts) + post.amount <= Disbursed
    /\ receipts' = Append(receipts,
           [file |-> attachmentFile, amount |-> post.amount, own |-> TRUE])
    /\ post' = [post EXCEPT !.at = "refresh"]
    /\ clicked' = {}
    /\ attachmentFile' = NoFile /\ attachmentPreviewUrl' = NoFile
    /\ UNCHANGED <<readers, receiptError, listed, formFilesVars>>

\* The chain takes the receipt, and the form is emptied.
Sent ==
    /\ post.at = "send"
    /\ Total(receipts) + post.amount <= Disbursed
    /\ receipts' = Append(receipts,
           [file |-> post.file, amount |-> post.amount, own |-> TRUE])
    /\ post' = [post EXCEPT !.at = "refresh"]
    /\ clicked' = {}
    /\ attachmentFile' = NoFile /\ attachmentPreviewUrl' = NoFile
    /\ UNCHANGED <<readers, receiptError, listed, formFilesVars>>

\* The wallet or the chain refuses it.
NotSent ==
    /\ post.at = "send"
    /\ post' = Idle
    /\ receiptError' = TRUE
    /\ UNCHANGED <<formVars, receipts, listed, formFilesVars, clicked>>

\* The list is read again; the hook keeps the former one if that fails.
Refreshed ==
    /\ post.at = "refresh"
    /\ post' = Idle
    /\ listed' \in {receipts, listed}
    /\ UNCHANGED <<formVars, receiptError, receipts, formFilesVars, clicked>>

\* The effect's own reading, when the page is opened or connected again.
Listed ==
    /\ listed' = receipts
    /\ UNCHANGED <<formVars, post, receiptError, receipts, formFilesVars, clicked>>

\* The vendor posts from another browser; with what attachment is of no
\* consequence here.
PostsElsewhere(a) ==
    /\ Total(receipts) + a <= Disbursed
    /\ receipts' = Append(receipts, [file |-> NoFile, amount |-> a, own |-> FALSE])
    /\ UNCHANGED <<formVars, post, receiptError, listed, formFilesVars, clicked>>

FormNext ==
    \/ \E f \in MaybeFile : Choose(f)
    \/ Detach
    \/ \E f \in readers : Previewed(f)
    \/ \E a \in Amounts : Submit(a)
    \/ Hashed \/ Read \/ Unreadable \/ Sent \/ NotSent \/ Refreshed
    \/ Listed
    \/ \E a \in Amounts : PostsElsewhere(a)

FormSpec == FormInit /\ [][FormNext]_receiptFormVars
-----------------------------------------------------------------------------
\* Every receipt of this browser is a click's: it has the file that was attached
\* and the amount that was typed when the button was pressed, whatever was
\* chosen while it was hashed, read and signed, and a click posts one at most.
PostedAsClicked ==
    [][Len(receipts') > Len(receipts) /\ Last(receipts').own =>
           /\ \E c \in clicked : Last(receipts') = [file |-> c.file, amount |-> c.amount, own |-> TRUE]
           /\ clicked' = {}]_receiptFormVars

\* When a receipt of this browser is on the chain, the copy of its attachment
\* is already kept here, unless the storage would not take it.
KeptBeforePosted ==
    \A i \in DOMAIN receipts :
        LET r == receipts[i]
        IN  r.own /\ r.file # NoFile => cache[r.file] # NoFile \/ r.file \in refused

\* Claimed of the cache: what is kept under a hash is the file with that hash.
KeyedByHash == \A f \in Files : cache[f] \in {f, NoFile}
=============================================================================
