\* One content of a plist: a job is loaded from an orphan file, the file goes, and disable
\* takes the VM for one without autostart.
SPECIFICATION Spec
CONSTANTS
  Versions = {v1}
  None = None
INVARIANT
  DisableUnloads
