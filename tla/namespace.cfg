\* Two machines make, remove, list and fill directories.
SPECIFICATION NamespaceSpec
CONSTANTS
  c1 = c1
  c2 = c2
  Client = {c1, c2}
  Path = {"d", "d/f", "g"}
  Root = "/"
  parent <- SmallTree
  Mode = {"rwx"}
  MaxStreams = 2
SYMMETRY Machines
INVARIANT DirectoriesTakeFiles
