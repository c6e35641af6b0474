CONSTANTS
  Volumes = 2
  Fst <- MCFst
  Fat <- MCFat
  Cluster = 4
  AesMax = 2
  Files = {h1, image}
  Dirs = {d1}
  Paths <- MCPaths
  Sizes = {1, 6}
  Seeks <- MCSeeks
  ImageFile = image
  ImageVolume = 0
  ImagePath <- MCImagePath
  Buffer = 2
  Images <- MCImages
  h1 = h1
  image = image
  d1 = d1
SPECIFICATION AncastSpec
INVARIANTS PlaceIsRight ReadIsRight TreeIsRight ImageIsRight
