------------------------------- MODULE Edits -------------------------------
(***************************************************************************)
(* Edits: PATCH handlers of the core Worker that set the columns they are  *)
(* asked to and leave the others: routes/jobs.ts, conversations.ts,        *)
(* companies.ts, me.ts and profiles.ts.  Most read the row and write all   *)
(* of it.  A behaviour edits rows of one of these tables.                  *)
(***************************************************************************)
EXTENDS Ingest

\* "name" and "text" are columns of one row (of a profile, the name is in
\* users); "apart" is one that is written apart: users.locale,
\* profiles.contact, conversations.archived.
Columns == {"name", "text", "apart"}

\* A row: of each column, the request that set it last.  The attachments of a
\* company's conversation.
Setters == [Columns -> Requests \cup {Nil}]
EditedRecord == [rev : Nat, cols : Setters]

ASSUME EditAssumption == Nil \notin EditedRecord /\ Nil \notin Setters

Edited == [rev |-> 1, cols |-> [c \in Columns |-> Nil]]
EditTables == [edited |-> NoRows, files |-> [i \in Ids |-> {}]]
IsThere(r) == db.edited[req[r].arg.id] # Nil

Asked(r) == req[r].arg.set
With(row, r, columns) ==
    [row EXCEPT !.cols = [c \in Columns |-> IF c \in columns \cap Asked(r) THEN r ELSE @[c]]]

\* UPDATE of columns to what r has read, or was asked to set.
Write(r, columns, next) ==
    LET row == With(req[r].v, r, columns) IN
    Do(r, next, req[r].v,
       IF ~IsThere(r) THEN db
       ELSE [db EXCEPT !.edited[req[r].arg.id].cols =
                           [c \in Columns |-> IF c \in columns THEN row.cols[c] ELSE @[c]]])

-----------------------------------------------------------------------------
(***************************************************************************)
(* Rows with a revision: postings a user keeps, conversations.             *)
(***************************************************************************)

\* The revision is asked for by the UPDATE alone, which writes what was read.
AnyRevision(r, row) == TRUE
AsExpected(r, row) == row.rev = req[r].arg.expected

PatchJob(r) == Load(r, "patchJob", "edited", AnyRow, "jobRow")
JobRow(r) ==
    /\ At(r, "jobRow")
    /\ LET i == req[r].arg.id IN
       IF IsThere(r) /\ AsExpected(r, db.edited[i])
       THEN ThenIngest(r, <<"edited", i>>,
                [db EXCEPT !.edited[i] = [With(req[r].v, r, Columns) EXCEPT !.rev = db.edited[i].rev + 1]])
       ELSE Refuse(r)

PatchConversation(r) == Load(r, "patchConversation", "edited", AnyRow, "conversationRow")
ConversationRow(r) == At(r, "conversationRow") /\ Save(r, "edited", With(req[r].v, r, {"name", "text"}))

\* Archives a conversation or brings it back.  The evidence only this one
\* refers to is archived by a last statement, which may fail unnoticed.
ArchiveConversation(r) == Load(r, "archiveConversation", "edited", AnyRow, "archiveConversationRow")
ArchiveConversationRow(r) ==
    /\ At(r, "archiveConversationRow")
    /\ LET i == req[r].arg.id  row == req[r].v IN
       IF ~Same("edited", i, row) THEN Refuse(r)
       ELSE Do(r, "dropFiles", Nil, [db EXCEPT !.edited[i] = Bumped(With(row, r, {"apart"}))])
DropFiles(r) ==
    /\ At(r, "dropFiles")
    /\ End(r, IF req[r].arg.back THEN db ELSE [db EXCEPT !.files[req[r].arg.id] = {}])

\* The rows that refer to it go with it.
DeleteConversation(r) == Load(r, "deleteConversation", "edited", AnyRow, "dropConversation")
DropConversation(r) ==
    /\ At(r, "dropConversation")
    /\ IF IsThere(r)
       THEN End(r, [db EXCEPT !.edited[req[r].arg.id] = Nil, !.files[req[r].arg.id] = {}]) ELSE Refuse(r)

PostAttachment(r) == Load(r, "postAttachment", "edited", AnyRow, "storeFile")
StoreFile(r) ==
    /\ At(r, "storeFile")
    /\ IF IsThere(r)
       THEN End(r, [db EXCEPT !.files[req[r].arg.id] = @ \cup {r}]) ELSE Refuse(r)

-----------------------------------------------------------------------------
(***************************************************************************)
(* Rows without a revision: companies, settings, profiles.                 *)
(***************************************************************************)

\* Sets the columns it is asked to, and those alone.
PatchCompany(r) == Load(r, "patchCompany", "edited", AnyRow, "companyRow")
CompanyRow(r) == At(r, "companyRow") /\ Write(r, Asked(r), "ok")

PatchSettings(r) == Load(r, "patchSettings", "edited", AnyRow, "localeRow")
LocaleRow(r) == At(r, "localeRow") /\ Write(r, Asked(r) \cap {"apart"}, "settingsRow")
SettingsRow(r) == At(r, "settingsRow") /\ Write(r, {"name", "text"}, "ok")

PatchMyProfile(r) == Load(r, "patchMyProfile", "edited", AnyRow, "nameRow")
NameRow(r) == At(r, "nameRow") /\ Write(r, {"name"}, "profileRow")
ProfileRow(r) == At(r, "profileRow") /\ Write(r, {"text"}, "contactRow")
ContactRow(r) == At(r, "contactRow") /\ Write(r, Asked(r) \cap {"apart"}, "ok")

\* Sections of a document become the profile's, if there is one it may be, and
\* if it has any of them.
SetBaseProfile(r) ==
    /\ At(r, "setBaseProfile")
    /\ Refuse(r) \/ End(r, db) \/ GoOn(r, "baseProfileRow", db.edited[req[r].arg.id])
BaseProfileRow(r) == At(r, "baseProfileRow") /\ Write(r, Asked(r), "ok")

-----------------------------------------------------------------------------
\* expectedRevision is the row's as the request begins (an older one is refused);
\* a company has no column apart; settings and profiles are asked for one column
\* or for all.
ArriveEdit(r) ==
    \E i \in {j \in Ids : db.edited[j] # Nil} :
        \/ \E c \in {"name", "text"} :
               Begin(r, "patchJob", [id |-> i, set |-> {c}, expected |-> db.edited[i].rev])
        \/ \E h \in {"patchConversation", "patchCompany"}, set \in SUBSET {"name", "text"} \ {{}} :
               Begin(r, h, [id |-> i, set |-> set])
        \/ Begin(r, "setBaseProfile", [id |-> i, set |-> {"text"}])
        \/ \E back \in BOOLEAN : Begin(r, "archiveConversation", [id |-> i, set |-> {"apart"}, back |-> back])
        \/ \E h \in {"deleteConversation", "postAttachment"} : Begin(r, h, [id |-> i, set |-> {}])
        \/ \E h \in {"patchSettings", "patchMyProfile"}, set \in {{c} : c \in Columns} \cup {Columns} :
               Begin(r, h, [id |-> i, set |-> set])

EditStep(r) ==
    \/ ArriveEdit(r) \/ PatchJob(r) \/ JobRow(r) \/ PatchConversation(r) \/ ConversationRow(r)
    \/ ArchiveConversation(r) \/ ArchiveConversationRow(r) \/ DropFiles(r) \/ DeleteConversation(r)
    \/ DropConversation(r) \/ PostAttachment(r) \/ StoreFile(r) \/ PatchCompany(r) \/ CompanyRow(r)
    \/ PatchSettings(r) \/ LocaleRow(r) \/ SettingsRow(r) \/ PatchMyProfile(r) \/ NameRow(r)
    \/ ProfileRow(r) \/ ContactRow(r) \/ SetBaseProfile(r) \/ BaseProfileRow(r)

\* No edit is lost to one that was not about it: a column changes only to what
\* the request that changes it was asked to set, though most of these handlers
\* write every column back.  The exceptions: patchSettings and patchMyProfile,
\* which write back what they read without a revision, and so undo or bring
\* back what the requests they overlap have done.
OnlyAskedIsChanged ==
    [][\A i \in Ids : \A c \in Columns :
          LET was == db.edited[i].cols[c]  is == db'.edited[i].cols[c] IN
          db.edited[i] # Nil /\ db'.edited[i] # Nil /\ is # was =>
              \/ is # Nil /\ c \in Asked(is) /\ req'[is].at # req[is].at
              \/ \E r \in Requests : /\ req'[r].at # req[r].at
                                     /\ \E h \in {"patchSettings", "patchMyProfile"} :
                                           req[r].do = h /\ MetAny(r, {h, "setBaseProfile"})]_vars
=============================================================================
