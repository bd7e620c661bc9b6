SPECIFICATION NandSpec
CONSTANTS
    game = game
    channel = channel
    x = x
    y = y
    z = z
    lib = lib
    font = font
    Titles = {game, channel}
    Ids = {1, 2, 3}
    Hashes = {x, y, z, lib, font}
    Packages <- MCPackages
    None = None
    Missing = Missing
    Torn = Torn
INVARIANTS
    MapNamesWhatIsThere
    InstalledIsComplete
