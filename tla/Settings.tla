------------------------------ MODULE Settings ------------------------------
(***************************************************************************)
(* The one row of site settings (src/src/components/settings) behind       *)
(* PUT /api/admin/settings.  An update reads the row, puts the fields of    *)
(* the request over it, checks the result and writes the whole row back,   *)
(* on connections of its own; two updates may cross.                       *)
(***************************************************************************)
EXTENDS Naturals, FiniteSets

CONSTANTS
  Admins,      \* threads that serve a settings request
  MaxChanges   \* bound: requests begun

ASSUME SettingsAssumption == Admins # {} /\ MaxChanges \in Nat

VARIABLES
  settings,    \* what get() returns: the row, or the defaults without one
  changing,    \* per thread, the fields it was sent and the row it will write
  changes,     \* requests begun
  stale,       \* history: threads whose copy was made before another one's write
  written,     \* history: what a reader of the answers takes the settings to be
  crossed      \* history: a stale copy was written

settingsVars == <<settings, changing, changes, stale, written, crossed>>

\* Of the texts: two titles the rules accept and an empty one, a theme outside the
\* list, a link whose URL is not http, an avatar that is no asset.
Rows == [site_title: {"one", "two", "empty"}, theme: {"system", "dark", "blue"},
         avatar_asset_id: {"none", "unknown"}, social_links_json: {"none", "other"}]
Fields == {"site_title", "theme", "avatar_asset_id", "social_links_json"}

Defaults == [site_title |-> "one", theme |-> "system",
             avatar_asset_id |-> "none", social_links_json |-> "none"]

NoChange == [sent |-> <<>>, row |-> Defaults]

\* The fields a request names, one or two of them, with a value each.
Requested ==
  {[f \in S |-> row[f]] : row \in Rows, S \in {S \in SUBSET Fields : Cardinality(S) \in 1..2}}

\* validate_settings, and before it the type of the field theme.
SettingsValid(row) ==
  /\ row.site_title # "empty"
  /\ row.theme # "blue"
  /\ row.social_links_json # "other"

\* The foreign key on assets.
AvatarExists(row) == row.avatar_asset_id # "unknown"

\* The fields sent over those of a row.
Over(sent, row) ==
  [f \in DOMAIN sent \cup DOMAIN row |-> IF f \in DOMAIN sent THEN sent[f] ELSE row[f]]

\* Mutant: a field the request leaves out is taken from the defaults.
MergedFromDefaults(sent, row) == Over(sent, Defaults)

Merged(sent, row) == Over(sent, row)

SettingsInit ==
  /\ settings = Defaults
  /\ changing = [a \in Admins |-> NoChange]
  /\ changes = 0
  /\ stale = {}
  /\ written = Defaults
  /\ crossed = FALSE

Busy == {a \in Admins : changing[a] # NoChange}

\* update up to the save; a request that fails a rule ends here, with 400.
BeginUpdate(a) ==
  /\ a \notin Busy
  /\ changes < MaxChanges
  /\ changes' = changes + 1
  /\ \E sent \in Requested :
       LET row == Merged(sent, settings) IN
       /\ SettingsValid(row)
       /\ changing' = [changing EXCEPT ![a] = [sent |-> sent, row |-> row]]
  /\ UNCHANGED <<settings, stale, written, crossed>>

\* save: the upsert of the whole row, or an IntegrityError.
SaveUpdate(a) ==
  LET row == changing[a].row IN
  /\ a \in Busy
  /\ changing' = [changing EXCEPT ![a] = NoChange]
  /\ IF AvatarExists(row)
     THEN /\ settings' = row
          /\ written' = Over(changing[a].sent, written)
          /\ crossed' = (crossed \/ a \in stale)
          /\ stale' = Busy \ {a}
     ELSE /\ stale' = stale \ {a}
          /\ UNCHANGED <<settings, written, crossed>>
  /\ UNCHANGED changes

\* reset_to_defaults, which reads nothing.
ResetToDefaults ==
  /\ changes < MaxChanges
  /\ changes' = changes + 1
  /\ settings' = Defaults
  /\ written' = Defaults
  /\ stale' = Busy
  /\ UNCHANGED <<changing, crossed>>

SettingsNext == (\E a \in Admins : BeginUpdate(a) \/ SaveUpdate(a)) \/ ResetToDefaults

SettingsSpec == SettingsInit /\ [][SettingsNext]_settingsVars

SettingsTypeOK ==
  /\ settings \in Rows /\ written \in Rows
  /\ \A a \in Admins : changing[a].row \in Rows
  /\ changes \in 0..MaxChanges
  /\ stale \subseteq Admins
  /\ crossed \in BOOLEAN

\* An update that was answered with success keeps its fields until another one
\* names them, unless a copy read before another write was written back; and
\* crossed or not, the row the pages are built from passes every rule.
SettingsKept ==
  /\ SettingsValid(settings) /\ AvatarExists(settings)
  /\ crossed \/ settings = written
=============================================================================
