------------------------------ MODULE Settings ------------------------------
(***************************************************************************)
(* Settings of Common/util/Settings.cpp: values read from the profile are  *)
(* kept in a map under g_rwLock, of which no more is used here than what a *)
(* reader-writer lock promises.                                            *)
(***************************************************************************)

CONSTANTS Reader, Key, File, NoValue,   \* NoValue: "n/a", or not in the map
          Value                 \* [File -> [Key -> value or NoValue]]

ASSUME FileAssumption == File # {}

VARIABLES
  g_strProfile,
  loading,      \* the files a loadFromProfile is assigning to it: one or none
  g_settings,   \* [Key -> value or NoValue]
  rwReaders, rwWriters,   \* who has g_rwLock
  call          \* [Reader -> where it is in getValue, with the key and the value
                \*  it has read, or its iterator points to]

settingsVars == <<g_strProfile, loading, g_settings, rwReaders, rwWriters, call>>

g_rwLock == INSTANCE SharedLock WITH
              Thread <- Reader, readers <- rwReaders, writers <- rwWriters

At(where, k, v) == [at |-> where, key |-> k, val |-> v]
Idle == At("idle", NoValue, NoValue)

SettingsInit ==
  /\ g_rwLock!Init /\ g_strProfile = (CHOOSE f \in File : TRUE) /\ loading = {}
  /\ g_settings = [k \in Key |-> NoValue] /\ call = [t \in Reader |-> Idle]

-----------------------------------------------------------------------------
(* loadFromProfile, or an edit of the file: the map is left alone.  The    *)
(* name is a string that is assigned without a lock, line 18.              *)
LoadFromProfile(f) ==
  /\ loading = {} /\ loading' = {f}
  /\ UNCHANGED <<g_strProfile, g_settings, call, rwReaders, rwWriters>>

Loaded(f) ==
  /\ f \in loading /\ loading' = {}
  /\ g_strProfile' = f
  /\ UNCHANGED <<g_settings, call, rwReaders, rwWriters>>

Search(t, k) ==
  /\ call[t].at \in {"idle", "returned"} /\ g_rwLock!AcquireShared(t)
  /\ call' = [call EXCEPT ![t] = At("search", k, NoValue)]
  /\ UNCHANGED <<g_strProfile, loading, g_settings>>

(* find is over, and the lock is given back: val is what the iterator      *)
(* points to now, for the property.                                        *)
Searched(t) ==
  /\ call[t].at = "search" /\ g_rwLock!ReleaseShared(t)
  /\ LET k == call[t].key
     IN  call' = [call EXCEPT ![t] =
                    At(IF g_settings[k] # NoValue THEN "found" ELSE "missed",
                       k, g_settings[k])]
  /\ UNCHANGED <<g_strProfile, loading, g_settings>>

(* Whoever looks at the name while it is being assigned finds any file, or *)
(* none.                                                                   *)
MayRead(k) ==
  IF loading = {} THEN {Value[g_strProfile][k]}
                  ELSE {Value[f][k] : f \in File} \cup {NoValue}

(* Profile::readValue; what reads as "n/a" is not found.                   *)
ReadValue(t) ==
  /\ call[t].at = "missed"
  /\ \E v \in MayRead(call[t].key) :
       call' = [call EXCEPT ![t] = IF v = NoValue THEN Idle ELSE At("read", call[t].key, v)]
  /\ UNCHANGED <<g_strProfile, loading, g_settings, rwReaders, rwWriters>>

BeginInsert(t) ==
  /\ call[t].at = "read" /\ g_rwLock!Acquire(t)
  /\ call' = [call EXCEPT ![t].at = "insert"]
  /\ UNCHANGED <<g_strProfile, loading, g_settings>>

(* Variant: g_settings[mapkey] = strVal.                                   *)
InsertOver(k, v) == g_settings' = [g_settings EXCEPT ![k] = v]

(* insert leaves a key alone that is there; the call returns what it read. *)
Insert(k, v) ==
  g_settings' = [g_settings EXCEPT ![k] = IF @ = NoValue THEN v ELSE @]

Inserted(t) ==
  /\ call[t].at = "insert" /\ g_rwLock!Release(t)
  /\ Insert(call[t].key, call[t].val)
  /\ call' = [call EXCEPT ![t] = Idle]
  /\ UNCHANGED <<g_strProfile, loading>>

(* it->second, line 31, after the lock has been given back: the node is    *)
(* read as it is then.  An insert may have rehashed the map: it leaves the *)
(* nodes where they are, though to the standard the iterator is invalid.   *)
ReturnsFound(t) ==
  /\ call[t].at = "found"
  /\ call' = [call EXCEPT ![t] = At("returned", call[t].key, g_settings[call[t].key])]
  /\ UNCHANGED <<g_strProfile, loading, g_settings, rwReaders, rwWriters>>

SettingsNext ==
  \/ \E f \in File : LoadFromProfile(f) \/ Loaded(f)
  \/ \E t \in Reader :
       \/ \E k \in Key : Search(t, k)
       \/ Searched(t) \/ ReadValue(t) \/ BeginInsert(t) \/ Inserted(t)
       \/ ReturnsFound(t)

SettingsSpec == SettingsInit /\ [][SettingsNext]_settingsVars

-----------------------------------------------------------------------------
(* Nobody searches the map while another thread inserts into it.  The      *)
(* iterator is used after the lock has been given back: what it points to  *)
(* is still what find found, and what it gave to the caller stays in the   *)
(* map.  Not even a thread that has read another value before it was       *)
(* there, from a profile that has changed since, takes it out again.       *)
FoundForGood ==
  /\ (\E t \in Reader : call[t].at = "insert") =>
       \A u \in Reader : call[u].at # "search"
  /\ \A t \in Reader :
       call[t].at \in {"found", "returned"} => call[t].val = g_settings[call[t].key]
=============================================================================
